---------------------------- MODULE Spec2Model ----------------------------
(***************************************************************************)
(* The terminal emulation engine of src/plugins/terminal/mod.rs: the       *)
(* TerminalState screen buffer (primary/alternate grid, scrollback,        *)
(* cursor, attributes), the vte::Perform callbacks of LogHandler that the  *)
(* reader thread applies to it, and the resize the UI frame applies.       *)
(*                                                                         *)
(* Rows and columns are 0-based as in the source; a TLA+ sequence is       *)
(* 1-based, so cell (r, c) of a grid g is g[r + 1][c + 1].                 *)
(***************************************************************************)
EXTENDS Integers, Sequences, FiniteSets, TLC

VARIABLES
    state,      \* the TerminalState behind TerminalTab.state (Arc<Mutex<..>>)
    last_size,  \* TerminalTab.last_size, (cols, rows)
    panicked,   \* TRUE once a handler has panicked (the reader thread unwound)
    steps,      \* number of operations applied so far (bounds the run)
    alt_entry,  \* history variable: cursor and primary grid at the last
                \* CSI ?1049h processed on the primary screen
    called,     \* history variable: the arguments of the last direct call of
                \* TerminalState::resize
    session     \* the threads of the session: where create_terminal_tab, the
                \* reader thread and the ui frame stand, and who holds the locks

vars == <<state, last_size, panicked, steps, alt_entry, called, session>>

---------------------------------------------------------------------------
(* Bounds of the model *)

\* rows and cols of the initial grid (create_terminal_tab uses 24 x 80)
InitRows == 4
InitCols == 3
\* largest display size a frame asks for
MaxRows == 4
MaxCols == 4
\* operations applied in one run of Spec
MaxSteps == 4
\* operations applied in one run of SpecDeep
MaxDeepSteps == 5
\* rows the scrollback of an initial state of SpecCap may lack, beyond one,
\* to reach HISTORY_CAP
MaxCapShort == 1
\* operations applied in one run of SpecCap
MaxCapTail == 3

\* operations applied in one run of SpecResize before its calls of resize
MaxResizeSteps == 2
\* calls of resize in one run of SpecResize
MaxResizeCalls == 1

\* operations applied in one run of SpecSgr
MaxSgrSteps == 3

\* clicks on the Terminal button, reads of the reader thread and frames in
\* one run of SpecSession
MaxClicks == 2
MaxReads == 1
MaxFrames == 1

---------------------------------------------------------------------------
(* Colors and cells *)

\* A Color32 is kept as one number: its bytes r, g, b in base 256, plus 2^24
\* when the color is opaque (Color32::from_rgb sets the alpha byte to 255)
from_rgb(r, g, b) == 16777216 + (r * 256 + g) * 256 + b

TERM_FG == from_rgb(220, 220, 220)

\* Color32::TRANSPARENT, four zero bytes
TRANSPARENT == 0

Cell(c, fg, bg, inverse, is_wide_continuation) ==
    [c |-> c, fg |-> fg, bg |-> bg, inverse |-> inverse,
     is_wide_continuation |-> is_wide_continuation]

\* code point of ' '
SPACE == 32

DefaultCell == Cell(SPACE, TERM_FG, TRANSPARENT, FALSE, FALSE)

ansi_color(code) ==
    CASE code = 0 -> from_rgb(0, 0, 0)
      [] code = 1 -> from_rgb(205, 0, 0)
      [] code = 2 -> from_rgb(0, 205, 0)
      [] code = 3 -> from_rgb(205, 205, 0)
      [] code = 4 -> from_rgb(0, 0, 238)
      [] code = 5 -> from_rgb(205, 0, 205)
      [] code = 6 -> from_rgb(0, 205, 205)
      [] code = 7 -> from_rgb(229, 229, 229)
      [] code = 8 -> from_rgb(127, 127, 127)
      [] code = 9 -> from_rgb(255, 0, 0)
      [] code = 10 -> from_rgb(0, 255, 0)
      [] code = 11 -> from_rgb(255, 255, 0)
      [] code = 12 -> from_rgb(92, 92, 255)
      [] code = 13 -> from_rgb(255, 0, 255)
      [] code = 14 -> from_rgb(0, 255, 255)
      [] code = 15 -> from_rgb(255, 255, 255)
      [] OTHER -> TERM_FG

\* `x as u8` of a u16
as_u8(x) == x % 256

min(a, b) == IF a < b THEN a ELSE b

\* usize::saturating_sub
saturating_sub(a, b) == IF a > b THEN a - b ELSE 0

\* vec![cell; n]
vec(cell, n) == [j \in 1..n |-> cell]

---------------------------------------------------------------------------
(* TerminalState *)

new(rows, cols) ==
    [rows |-> rows,
     cols |-> cols,
     cursor_row |-> 0,
     cursor_col |-> 0,
     saved_cursor |-> <<0, 0>>,
     primary_grid |-> vec(vec(DefaultCell, cols), rows),
     alt_grid |-> vec(vec(DefaultCell, cols), rows),
     history |-> <<>>,
     is_alt_screen |-> FALSE,
     current_fg |-> TERM_FG,
     current_bg |-> TRANSPARENT,
     current_inverse |-> FALSE,
     cursor_visible |-> TRUE,
     application_cursor |-> FALSE]

grid(st) == IF st.is_alt_screen THEN st.alt_grid ELSE st.primary_grid

\* an assignment through grid_mut(): the active grid becomes g
grid_mut(st, g) ==
    IF st.is_alt_screen THEN [st EXCEPT !.alt_grid = g]
                        ELSE [st EXCEPT !.primary_grid = g]

\* the scrollback cap of scroll_up
HISTORY_CAP == 5000

\* a scrollback that drops the row just pushed instead of the oldest
MutPushDropNewest(history, top_row) ==
    LET pushed == Append(history, top_row)
    IN  IF Len(pushed) > HISTORY_CAP THEN SubSeq(pushed, 1, Len(pushed) - 1)
                                     ELSE pushed

\* history.push(top_row); if history.len() > 5000 { history.remove(0); }
history_push(history, top_row) ==
    LET pushed == Append(history, top_row)
    IN  IF Len(pushed) > HISTORY_CAP THEN Tail(pushed) ELSE pushed

\* a scroll that pushes default cells
MutDefaultScrollRow(st) == vec(DefaultCell, st.cols)

\* the row scroll_up pushes at the bottom of the active grid
scroll_row(st) ==
    vec(Cell(SPACE, st.current_fg, st.current_bg, st.current_inverse, FALSE),
        st.cols)

\* Vec::remove(0) panics on an empty grid
scroll_up_panics(st) == Len(grid(st)) = 0

\* a scroll that feeds the scrollback from the alternate grid too
MutScrollAltHistory(st) ==
    LET top_row == Head(grid(st))
        s1 == grid_mut(st, Tail(grid(st)))
        s2 == [s1 EXCEPT !.history = history_push(@, top_row)]
        s3 == grid_mut(s2, Append(grid(s2), scroll_row(st)))
    IN  [s3 EXCEPT !.cursor_row = IF @ > 0 THEN @ - 1 ELSE @]

\* a scroll that forgets the new bottom row
MutScrollNoPush(st) ==
    LET top_row == Head(grid(st))
        s1 == grid_mut(st, Tail(grid(st)))
        s2 == IF ~st.is_alt_screen
                THEN [s1 EXCEPT !.history = history_push(@, top_row)]
                ELSE s1
    IN  [s2 EXCEPT !.cursor_row = IF @ > 0 THEN @ - 1 ELSE @]

scroll_up(st) ==
    LET top_row == Head(grid(st))
        s1 == grid_mut(st, Tail(grid(st)))
        s2 == IF ~st.is_alt_screen
                THEN [s1 EXCEPT !.history = history_push(@, top_row)]
                ELSE s1
        s3 == grid_mut(s2, Append(grid(s2), scroll_row(st)))
    IN  [s3 EXCEPT !.cursor_row = IF @ > 0 THEN @ - 1 ELSE @]

\* a resize that fixes the row count and leaves the old rows' widths
MutResizeGridRowsOnly(g, r, c) ==
    IF r > Len(g) THEN g \o vec(vec(DefaultCell, c), r - Len(g))
                  ELSE SubSeq(g, 1, r)

\* the nested fn resize_grid of TerminalState::resize
resize_grid(g, r, c) ==
    LET rowsDone == IF r > Len(g)
                      THEN g \o vec(vec(DefaultCell, c), r - Len(g))
                      ELSE SubSeq(g, 1, r)
    IN  [i \in 1..Len(rowsDone) |->
            LET row == rowsDone[i]
            IN  IF c > Len(row) THEN row \o vec(DefaultCell, c - Len(row))
                                ELSE SubSeq(row, 1, c)]

\* a resize that leaves the cursor where it was
MutResizeNoClamp(st, new_rows, new_cols) ==
    IF new_rows = 0 \/ new_cols = 0 THEN st
    ELSE [st EXCEPT !.primary_grid = resize_grid(@, new_rows, new_cols),
                    !.alt_grid = resize_grid(@, new_rows, new_cols),
                    !.rows = new_rows,
                    !.cols = new_cols]

\* a resize that never narrows the grids
MutResizeNeverNarrows(st, new_rows, new_cols) ==
    LET wide == IF new_cols < st.cols THEN st.cols ELSE new_cols
    IN  IF new_rows = 0 \/ new_cols = 0 THEN st
        ELSE [st EXCEPT !.primary_grid = resize_grid(@, new_rows, wide),
                        !.alt_grid = resize_grid(@, new_rows, wide),
                        !.rows = new_rows,
                        !.cols = wide,
                        !.cursor_row = min(@, new_rows - 1),
                        !.cursor_col = min(@, wide - 1)]

\* a resize without the early return on a zero dimension
MutResizeNoZeroGuard(st, new_rows, new_cols) ==
    [st EXCEPT !.primary_grid = resize_grid(@, new_rows, new_cols),
               !.alt_grid = resize_grid(@, new_rows, new_cols),
               !.rows = new_rows,
               !.cols = new_cols,
               !.cursor_row = min(@, new_rows - 1),
               !.cursor_col = min(@, new_cols - 1)]

resize(st, new_rows, new_cols) ==
    IF new_rows = 0 \/ new_cols = 0 THEN st
    ELSE [st EXCEPT !.primary_grid = resize_grid(@, new_rows, new_cols),
                    !.alt_grid = resize_grid(@, new_rows, new_cols),
                    !.rows = new_rows,
                    !.cols = new_cols,
                    !.cursor_row = min(@, new_rows - 1),
                    !.cursor_col = min(@, new_cols - 1)]

---------------------------------------------------------------------------
(* LogHandler: vte::Perform *)

\* c as u32 > 0x7f
is_wide(c) == c > 127

\* state after the wrap and the scroll that open print
print_wrapped(st, c) ==
    LET width == IF is_wide(c) THEN 2 ELSE 1
        s1 == IF st.cursor_col + width > st.cols
                THEN [st EXCEPT !.cursor_col = 0, !.cursor_row = @ + 1]
                ELSE st
    IN  IF s1.cursor_row >= s1.rows THEN scroll_up(s1) ELSE s1

\* grid[row][col] and grid[row][col + 1] index inside the row, or panic
print_panics(st, c) ==
    LET s2 == print_wrapped(st, c)
    IN  /\ s2.cursor_row < s2.rows
        /\ \/ s2.cursor_row >= Len(grid(s2))
           \/ s2.cursor_col >= Len(grid(s2)[s2.cursor_row + 1])

print(st, c) ==
    LET s2 == print_wrapped(st, c)
        row == s2.cursor_row
        col == s2.cursor_col
        fg == s2.current_fg
        bg == s2.current_bg
        inverse == s2.current_inverse
        cols_limit == s2.cols
        g1 == [grid(s2) EXCEPT ![row + 1][col + 1] = Cell(c, fg, bg, inverse, FALSE)]
    IN  IF s2.cursor_row < s2.rows
          THEN IF is_wide(c) /\ col + 1 < cols_limit
                 THEN [grid_mut(s2, [g1 EXCEPT ![row + 1][col + 2] =
                                        Cell(SPACE, fg, bg, inverse, TRUE)])
                          EXCEPT !.cursor_col = @ + 2]
                 ELSE [grid_mut(s2, g1) EXCEPT !.cursor_col = @ + 1]
          ELSE s2

\* the control bytes execute matches
CR == 13
LF == 10
BS == 8
TAB == 9

execute(st, byte) ==
    CASE byte = CR -> [st EXCEPT !.cursor_col = 0]
      [] byte = LF ->
            LET s1 == [st EXCEPT !.cursor_row = @ + 1]
            IN  IF s1.cursor_row >= s1.rows THEN scroll_up(s1) ELSE s1
      [] byte = BS -> IF st.cursor_col > 0 THEN [st EXCEPT !.cursor_col = @ - 1]
                                           ELSE st
      [] byte = TAB ->
            LET next_tab == ((st.cursor_col \div 8) + 1) * 8
            IN  [st EXCEPT !.cursor_col = min(next_tab, st.cols - 1)]
      [] OTHER -> st

\* params.iter().nth(i - 1).map(|p| p[0]), as <<value>> or <<>> (None)
nth(params, i) == IF i <= Len(params) THEN <<params[i]>> ELSE <<>>

\* .unwrap_or(d) of such an option
unwrap_or(opt, d) == IF opt = <<>> THEN d ELSE opt[1]

\* an 'm' arm that takes the bright foreground codes 90..97 for 30..37
MutSgrBrightAsNormal(st, params, i) ==
    IF i > Len(params) THEN st
    ELSE LET p == params[i]
         IN  CASE p = 0 -> [st EXCEPT !.current_fg = TERM_FG,
                                      !.current_bg = TRANSPARENT,
                                      !.current_inverse = FALSE]
               [] p = 7 -> [st EXCEPT !.current_inverse = TRUE]
               [] p \in 30..37 ->
                    [st EXCEPT !.current_fg = ansi_color(as_u8(p) - 30)]
               [] p \in 40..47 ->
                    [st EXCEPT !.current_bg = ansi_color(as_u8(p) - 40)]
               [] p \in 90..97 ->
                    [st EXCEPT !.current_fg = ansi_color(as_u8(p) - 90)]
               [] OTHER -> st

\* an 'm' arm that takes every parameter for a code of its own: 38 and 48
\* consume nothing
RECURSIVE MutSgrNoSub(_, _, _)
MutSgrNoSub(st, params, i) ==
    IF i > Len(params) THEN st
    ELSE
      LET p == params[i]
      IN  MutSgrNoSub(
            CASE p = 0 -> [st EXCEPT !.current_fg = TERM_FG,
                                     !.current_bg = TRANSPARENT,
                                     !.current_inverse = FALSE]
              [] p = 7 -> [st EXCEPT !.current_inverse = TRUE]
              [] p = 27 -> [st EXCEPT !.current_inverse = FALSE]
              [] p \in 30..37 -> [st EXCEPT !.current_fg = ansi_color(as_u8(p) - 30)]
              [] p = 39 -> [st EXCEPT !.current_fg = TERM_FG]
              [] p \in 40..47 -> [st EXCEPT !.current_bg = ansi_color(as_u8(p) - 40)]
              [] p = 49 -> [st EXCEPT !.current_bg = TRANSPARENT]
              [] p \in 90..97 ->
                   [st EXCEPT !.current_fg = ansi_color(as_u8(p) - 90 + 8)]
              [] p \in 100..107 ->
                   [st EXCEPT !.current_bg = ansi_color(as_u8(p) - 100 + 8)]
              [] OTHER -> st,
            params, i + 1)

\* the `while let Some(param) = it.next()` loop of the 'm' arm; i is the
\* iterator's position
RECURSIVE sgr(_, _, _)
sgr(st, params, i) ==
    IF i > Len(params) THEN st
    ELSE
      LET p == params[i]
          sub == nth(params, i + 1)
          ext(field) ==
              \* 38 / 48: the extended color forms
              IF sub = <<5>>
                THEN IF nth(params, i + 2) # <<>>
                       THEN sgr([st EXCEPT ![field] = ansi_color(as_u8(params[i + 2]))],
                                params, i + 3)
                       ELSE sgr(st, params, i + 3)
              ELSE IF sub = <<2>>
                THEN sgr([st EXCEPT ![field] =
                            from_rgb(as_u8(unwrap_or(nth(params, i + 2), 0)),
                                     as_u8(unwrap_or(nth(params, i + 3), 0)),
                                     as_u8(unwrap_or(nth(params, i + 4), 0)))],
                         params, i + 5)
              ELSE sgr(st, params, i + 2)
      IN  CASE p = 0 -> sgr([st EXCEPT !.current_fg = TERM_FG,
                                       !.current_bg = TRANSPARENT,
                                       !.current_inverse = FALSE], params, i + 1)
            [] p = 7 -> sgr([st EXCEPT !.current_inverse = TRUE], params, i + 1)
            [] p = 27 -> sgr([st EXCEPT !.current_inverse = FALSE], params, i + 1)
            [] p \in 30..37 ->
                 sgr([st EXCEPT !.current_fg = ansi_color(as_u8(p) - 30)], params, i + 1)
            [] p = 38 -> ext("current_fg")
            [] p = 39 -> sgr([st EXCEPT !.current_fg = TERM_FG], params, i + 1)
            [] p \in 40..47 ->
                 sgr([st EXCEPT !.current_bg = ansi_color(as_u8(p) - 40)], params, i + 1)
            [] p = 48 -> ext("current_bg")
            [] p = 49 -> sgr([st EXCEPT !.current_bg = TRANSPARENT], params, i + 1)
            [] p \in 90..97 ->
                 sgr([st EXCEPT !.current_fg = ansi_color(as_u8(p) - 90 + 8)],
                     params, i + 1)
            [] p \in 100..107 ->
                 sgr([st EXCEPT !.current_bg = ansi_color(as_u8(p) - 100 + 8)],
                     params, i + 1)
            [] OTHER -> sgr(st, params, i + 1)

\* a loop that removes one cell whatever the count
MutDchOnce(line, col, num) ==
    IF col < Len(line)
      THEN Append(SubSeq(line, 1, col) \o SubSeq(line, col + 2, Len(line)),
                  DefaultCell)
      ELSE line

\* the `for _ in 0..num` loop of the 'P' arm on one row
RECURSIVE dch_loop(_, _, _)
dch_loop(line, col, num) ==
    IF num = 0 THEN line
    ELSE IF col < Len(line)
      THEN dch_loop(Append(SubSeq(line, 1, col) \o SubSeq(line, col + 2, Len(line)),
                           DefaultCell),
                    col, num - 1)
      ELSE dch_loop(line, col, num - 1)

\* one parameter of the `'h' if intermediates == b"?"` arm
set_mode(st, p) ==
    CASE p = 25 -> [st EXCEPT !.cursor_visible = TRUE]
      [] p = 1 -> [st EXCEPT !.application_cursor = TRUE]
      [] p = 1049 ->
            [st EXCEPT !.saved_cursor = <<st.cursor_row, st.cursor_col>>,
                       !.is_alt_screen = TRUE,
                       !.alt_grid = vec(vec(DefaultCell, st.cols), st.rows),
                       !.cursor_row = 0,
                       !.cursor_col = 0]
      [] OTHER -> st

\* an exit from the alternate screen that leaves the cursor where it is
MutResetModeKeepCursor(st, p) ==
    CASE p = 25 -> [st EXCEPT !.cursor_visible = FALSE]
      [] p = 1 -> [st EXCEPT !.application_cursor = FALSE]
      [] p = 1049 -> [st EXCEPT !.is_alt_screen = FALSE]
      [] OTHER -> st

\* one parameter of the `'l' if intermediates == b"?"` arm
reset_mode(st, p) ==
    CASE p = 25 -> [st EXCEPT !.cursor_visible = FALSE]
      [] p = 1 -> [st EXCEPT !.application_cursor = FALSE]
      [] p = 1049 ->
            [st EXCEPT !.is_alt_screen = FALSE,
                       !.cursor_row = st.saved_cursor[1],
                       !.cursor_col = st.saved_cursor[2]]
      [] OTHER -> st

\* `for p in params.iter()` of the 'h' and 'l' arms
RECURSIVE modes(_, _, _, _)
modes(st, params, i, set) ==
    IF i > Len(params) THEN st
    ELSE modes(IF set THEN set_mode(st, params[i]) ELSE reset_mode(st, params[i]),
               params, i + 1, set)

\* the slice grid[row][col..] of 'K' and grid[row][col..limit] of 'X' is
\* out of range
csi_panics(st, params, intermediates, c) ==
    CASE c = "K" ->
            /\ st.cursor_row < st.rows
            /\ \/ st.cursor_row >= Len(grid(st))
               \/ st.cursor_col > Len(grid(st)[st.cursor_row + 1])
      [] c = "X" ->
            LET num == unwrap_or(nth(params, 1), 1)
                limit == min(st.cursor_col + num, st.cols)
            IN  \/ st.cursor_row >= Len(grid(st))
                \/ st.cursor_col > limit
                \/ limit > Len(grid(st)[st.cursor_row + 1])
      [] c = "P" ->
            /\ st.cursor_row < st.rows
            /\ st.cursor_col < st.cols
            /\ st.cursor_row >= Len(grid(st))
      [] OTHER -> FALSE

\* a conversion that takes the parameter for the index
MutZeroBasedKeeps(opt) == IF opt = <<>> THEN 0 ELSE opt[1]

\* .map(|p| p[0].saturating_sub(1) as usize).unwrap_or(0): the 0-based index
\* of a 1-based parameter
zero_based(opt) == IF opt = <<>> THEN 0 ELSE saturating_sub(opt[1], 1)

\* an erase that leaves the cursor where it is
MutEraseKeepsCursor(st) == grid_mut(st, vec(vec(DefaultCell, st.cols), st.rows))

\* the body of the 'J' arm for parameter 2
erase_display(st) ==
    [grid_mut(st, vec(vec(DefaultCell, st.cols), st.rows))
        EXCEPT !.cursor_row = 0, !.cursor_col = 0]

csi_dispatch(st, params, intermediates, c) ==
    LET first == nth(params, 1)
        second == nth(params, 2)
        pos(opt) == zero_based(opt)
        count == unwrap_or(first, 1)
        row == st.cursor_row
        col == st.cursor_col
    IN  CASE c = "m" -> sgr(st, params, 1)
          [] c \in {"H", "f"} ->
                [st EXCEPT !.cursor_row = min(pos(first), st.rows - 1),
                           !.cursor_col = min(pos(second), st.cols - 1)]
          [] c = "G" -> [st EXCEPT !.cursor_col = min(pos(first), st.cols - 1)]
          [] c = "d" -> [st EXCEPT !.cursor_row = min(pos(first), st.rows - 1)]
          [] c = "J" ->
                IF unwrap_or(first, 0) = 2 THEN erase_display(st) ELSE st
          [] c = "K" ->
                IF row < st.rows
                  THEN grid_mut(st, [grid(st) EXCEPT ![row + 1] =
                          [j \in 1..Len(@) |-> IF j >= col + 1 THEN DefaultCell ELSE @[j]]])
                  ELSE st
          [] c = "X" ->
                LET limit == min(col + count, st.cols)
                IN  grid_mut(st, [grid(st) EXCEPT ![row + 1] =
                        [j \in 1..Len(@) |->
                            IF j >= col + 1 /\ j <= limit THEN DefaultCell ELSE @[j]]])
          [] c = "P" ->
                IF row < st.rows /\ col < st.cols
                  THEN grid_mut(st, [grid(st) EXCEPT ![row + 1] = dch_loop(@, col, count)])
                  ELSE st
          [] c = "h" /\ intermediates = "?" -> modes(st, params, 1, TRUE)
          [] c = "l" /\ intermediates = "?" -> modes(st, params, 1, FALSE)
          [] c = "A" -> [st EXCEPT !.cursor_row = saturating_sub(@, count)]
          [] c = "B" -> [st EXCEPT !.cursor_row = min(@ + count, st.rows - 1)]
          [] c = "C" -> [st EXCEPT !.cursor_col = min(@ + count, st.cols - 1)]
          [] c = "D" -> [st EXCEPT !.cursor_col = saturating_sub(@, count)]
          [] OTHER -> st

\* an OSC handler that clears the active grid
MutOscClears(st, params, bell_terminated) == csi_dispatch(st, <<2>>, "", "J")

\* the callbacks with empty bodies
hook(st, params, intermediates, c) == st

put(st, byte) == st

unhook(st) == st

osc_dispatch(st, params, bell_terminated) == st

esc_dispatch(st, intermediates, byte) == st

---------------------------------------------------------------------------
(* Inputs *)

\* 'a' and a double-width character (U+4E2D)
Chars == {97, 20013}

\* CR, LF, BS, TAB and a control byte execute ignores (BEL)
Bytes == {CR, LF, BS, TAB, 7}

csi(params, intermediates, c) ==
    [params |-> params, intermediates |-> intermediates, c |-> c]

CsiInputs ==
    {csi(<<7>>, "", "m"), csi(<<0>>, "", "m"), csi(<<31>>, "", "m"),
     csi(<<41>>, "", "m"),
     csi(<<>>, "", "H"), csi(<<2, 3>>, "", "H"), csi(<<9, 9>>, "", "H"),
     csi(<<9, 1>>, "", "f"), csi(<<2>>, "", "G"), csi(<<3>>, "", "d"),
     csi(<<2>>, "", "J"), csi(<<>>, "", "J"), csi(<<>>, "", "K"),
     csi(<<>>, "", "X"), csi(<<2>>, "", "X"),
     csi(<<1>>, "", "P"), csi(<<9>>, "", "P"),
     csi(<<1049>>, "?", "h"), csi(<<25>>, "?", "h"), csi(<<1>>, "?", "h"),
     csi(<<1049>>, "?", "l"), csi(<<25>>, "?", "l"), csi(<<1>>, "?", "l"),
     csi(<<1049>>, "", "h"),
     csi(<<>>, "", "A"), csi(<<9>>, "", "B"), csi(<<>>, "", "C"),
     csi(<<2>>, "", "D"), csi(<<>>, "", "S")}

\* the display sizes a frame computes from its rectangle
DisplayRows == 0..MaxRows
DisplayCols == 0..MaxCols

---------------------------------------------------------------------------
(* The history variable alt_entry *)

NoEntry == [active |-> FALSE, row |-> 0, col |-> 0, grid |-> <<>>, nested |-> FALSE]

\* number of parameters equal to p
RECURSIVE count_of(_, _)
count_of(params, p) ==
    IF params = <<>> THEN 0
    ELSE (IF Head(params) = p THEN 1 ELSE 0) + count_of(Tail(params), p)

entry_after(entry, st, t) ==
    LET n == IF t.intermediates = "?" THEN count_of(t.params, 1049) ELSE 0
    IN  IF n = 0 \/ t.c \notin {"h", "l"} THEN entry
        ELSE IF t.c = "l" THEN NoEntry
        ELSE IF ~st.is_alt_screen
          THEN [active |-> TRUE, row |-> st.cursor_row, col |-> st.cursor_col,
                grid |-> st.primary_grid, nested |-> n > 1]
        ELSE IF entry.active THEN [entry EXCEPT !.nested = TRUE]
        ELSE entry

---------------------------------------------------------------------------
(* The history variable called *)

NoCall == [made |-> FALSE, rows |-> 0, cols |-> 0]

Call(rows, cols) == [made |-> TRUE, rows |-> rows, cols |-> cols]

---------------------------------------------------------------------------
(* The session: create_terminal_tab, the reader thread and the ui frame.   *)
(* A position names the statement a thread executes next.  A lock field    *)
(* names its holder: "free", "reader" or "ui".                             *)

\* rows as u16, cols as u16
as_u16(x) == x % 65536

\* a PtySize with rows and cols exchanged
MutPtySizeSwapped(rows, cols) == <<as_u16(cols), as_u16(rows)>>

\* PtySize { rows: rows as u16, cols: cols as u16, .. }
PtySize(rows, cols) == <<as_u16(rows), as_u16(cols)>>

ESC == 27

\* Parser::new(): the ground state, nothing collected
ParserNew ==
    [state |-> "ground", params |-> <<>>, param |-> 0, intermediates |-> "",
     bytes |-> <<>>]

\* the number of bytes of the UTF-8 sequence that starts with byte b
utf8_len(b) == IF b < 224 THEN 2 ELSE IF b < 240 THEN 3 ELSE 4

\* the character a complete UTF-8 sequence encodes
utf8_char(bytes) ==
    CASE Len(bytes) = 2 -> (bytes[1] - 192) * 64 + (bytes[2] - 128)
      [] Len(bytes) = 3 ->
            (bytes[1] - 224) * 4096 + (bytes[2] - 128) * 64 + (bytes[3] - 128)
      [] OTHER ->
            (bytes[1] - 240) * 262144 + (bytes[2] - 128) * 4096
              + (bytes[3] - 128) * 64 + (bytes[4] - 128)

\* the final byte of a control sequence as the char csi_dispatch matches on
final_char(byte) ==
    CASE byte = 65 -> "A" [] byte = 66 -> "B" [] byte = 67 -> "C"
      [] byte = 68 -> "D" [] byte = 71 -> "G" [] byte = 72 -> "H"
      [] byte = 74 -> "J" [] byte = 75 -> "K" [] byte = 80 -> "P"
      [] byte = 88 -> "X" [] byte = 100 -> "d" [] byte = 102 -> "f"
      [] byte = 104 -> "h" [] byte = 108 -> "l" [] byte = 109 -> "m"
      [] OTHER -> "other"

\* parser.advance(&mut handler, byte): the parser after the byte and the
\* handler calls it makes (none or one). The parser keeps what it has
\* collected of an unfinished sequence: the state, the parameters, the
\* intermediates, the bytes of a character.
advance(parser, byte) ==
    LET ground == [parser EXCEPT !.state = "ground"]
        none(next) == [parser |-> next, calls |-> <<>>]
        one(next, call) == [parser |-> next, calls |-> <<call>>]
    IN  CASE parser.state = "utf8" ->
               LET bytes == Append(parser.bytes, byte)
               IN  IF Len(bytes) = utf8_len(bytes[1])
                     THEN one([ground EXCEPT !.bytes = <<>>],
                              [kind |-> "print", arg |-> utf8_char(bytes)])
                     ELSE none([parser EXCEPT !.bytes = bytes])
          [] parser.state # "utf8" /\ byte = ESC ->
               none([ParserNew EXCEPT !.state = "escape"])
          [] parser.state # "utf8" /\ byte < 32 /\ byte # ESC ->
               one(parser, [kind |-> "execute", arg |-> byte])
          [] parser.state = "ground" /\ byte >= 32 /\ byte < 128 ->
               one(parser, [kind |-> "print", arg |-> byte])
          [] parser.state = "ground" /\ byte >= 128 ->
               none([parser EXCEPT !.state = "utf8", !.bytes = <<byte>>])
          [] parser.state = "escape" /\ byte >= 32 ->
               IF byte = 91
                 THEN none([ParserNew EXCEPT !.state = "csi"])
                 ELSE one(ground, [kind |-> "esc_dispatch", arg |-> byte])
          [] parser.state = "csi" /\ byte >= 32 ->
               IF byte \in 48..57
                 THEN none([parser EXCEPT
                              !.param = min(@ * 10 + (byte - 48), 65535)])
               ELSE IF byte = 59
                 THEN none([parser EXCEPT !.params = Append(@, parser.param),
                                          !.param = 0])
               ELSE IF byte < 64
                 THEN none([parser EXCEPT
                              !.intermediates = IF byte = 63 THEN "?" ELSE "other"])
               ELSE one(ParserNew,
                        [kind |-> "csi",
                         arg |-> [params |-> Append(parser.params, parser.param),
                                  intermediates |-> parser.intermediates,
                                  c |-> final_char(byte)]])

\* before the Terminal button of on_tab_menu is clicked
NoSession ==
    [create |-> "menu",        \* create_terminal_tab: "menu", "openpty",
                               \* "spawn_command", "take_writer",
                               \* "try_clone_reader", "spawn", "returned"
     result |-> "None",        \* what create_terminal_tab returned
     error |-> "",             \* the call whose error `?` returned
     tab_open |-> FALSE,       \* AppCommand::OpenTab was pushed
     child |-> "none",         \* the shell: "none", "running", "killed"
     clicks |-> 0,
     reader |-> "none",        \* "none", "read", "lock", "apply", "exit"
     chunk |-> <<>>,           \* handler calls of buffer[..n] still to make
     reads |-> 0,
     last_call |-> [kind |-> "none", arg |-> 0],
                               \* the handler call parser.advance made last
                               \* (recorded by Perform)
     eof |-> FALSE,            \* a read returned Ok(0) or Err
     ui |-> "none",            \* "none", "idle" and the statements of ui
     rows |-> 0,               \* rows and cols of the running frame
     cols |-> 0,
     focus |-> FALSE,          \* response.has_focus()
     events |-> <<>>,          \* i.events still to handle
     is_app_mode |-> FALSE,
     sent |-> <<>>,            \* the bytes the last event wrote to the writer
     mode_1 |-> "none",        \* the last of CSI ?1h ("h") and CSI ?1l ("l")
                               \* among the handler calls (recorded by Perform)
     written |-> 0,            \* write_all calls on the PTY writer
     frames |-> 0,
     scroll_offset |-> 0,      \* TerminalTab.scroll_offset
     ime_window |-> <<>>,      \* the row range the frame computed for the IME
                               \* rectangle, <<>> if it computed none
     render_window |-> <<>>,   \* the row range the frame painted
     rows_painted |-> <<>>,    \* the source of each display row of the frame
     stream |-> <<>>,          \* the bytes the shell writes to the PTY
     consumed |-> 0,           \* how many of them the reader has read
     parser |-> ParserNew,     \* `parser` of the reader thread
     state_lock |-> "free",    \* TerminalTab.state
     writer_lock |-> "free",   \* TerminalTab.writer
     pty_size |-> <<0, 0>>]    \* the size the OS pseudo-terminal was told

\* the session create_terminal_tab returns and on_tab_menu opens: the reader
\* blocked in its first read, no frame running
Running ==
    [NoSession EXCEPT !.create = "returned", !.result = "Ok",
                      !.tab_open = TRUE, !.clicks = 1, !.child = "running",
                      !.reader = "read", !.ui = "idle",
                      !.pty_size = PtySize(InitRows, InitCols)]

---------------------------------------------------------------------------
(* Actions *)

Init ==
    /\ state = new(InitRows, InitCols)
    /\ last_size = <<InitCols, InitRows>>
    /\ panicked = FALSE
    /\ steps = 0
    /\ alt_entry = NoEntry
    /\ called = NoCall
    /\ session = Running

\* the reader thread hands a printable character to LogHandler::print
DoPrint(c, bound) ==
    /\ steps < bound
    /\ ~panicked
    /\ state' = IF print_panics(state, c) THEN print_wrapped(state, c)
                                          ELSE print(state, c)
    /\ panicked' = print_panics(state, c)
    /\ steps' = steps + 1
    /\ UNCHANGED <<last_size, alt_entry, called, session>>

\* the reader thread hands a control byte to LogHandler::execute
DoExecute(byte, bound) ==
    /\ steps < bound
    /\ ~panicked
    /\ state' = execute(state, byte)
    /\ steps' = steps + 1
    /\ UNCHANGED <<last_size, panicked, alt_entry, called, session>>

\* the reader thread hands a CSI sequence to LogHandler::csi_dispatch
DoCsi(t, bound) ==
    /\ steps < bound
    /\ ~panicked
    /\ LET p == csi_panics(state, t.params, t.intermediates, t.c)
       IN  /\ panicked' = p
           /\ state' = IF p THEN state
                       ELSE csi_dispatch(state, t.params, t.intermediates, t.c)
           /\ alt_entry' = IF p THEN alt_entry ELSE entry_after(alt_entry, state, t)
    /\ steps' = steps + 1
    /\ UNCHANGED <<last_size, called, session>>

\* a frame of TerminalTab::ui whose display size changed
UiResize(rows, cols, bound) ==
    /\ steps < bound
    /\ cols > 2 /\ rows > 2
    /\ cols # last_size[1] \/ rows # last_size[2]
    /\ state' = resize(state, rows, cols)
    /\ last_size' = <<cols, rows>>
    /\ alt_entry' = NoEntry
    /\ steps' = steps + 1
    /\ UNCHANGED <<panicked, called, session>>

Next ==
    \/ \E c \in Chars : DoPrint(c, MaxSteps)
    \/ \E byte \in Bytes : DoExecute(byte, MaxSteps)
    \/ \E t \in CsiInputs : DoCsi(t, MaxSteps)
    \/ \E rows \in DisplayRows, cols \in DisplayCols : UiResize(rows, cols, MaxSteps)

Spec == Init /\ [][Next]_vars

\* the same operations, one more of them in a run
NextDeep ==
    \/ \E c \in Chars : DoPrint(c, MaxDeepSteps)
    \/ \E byte \in Bytes : DoExecute(byte, MaxDeepSteps)
    \/ \E t \in CsiInputs : DoCsi(t, MaxDeepSteps)
    \/ \E rows \in DisplayRows, cols \in DisplayCols :
          UiResize(rows, cols, MaxDeepSteps)

SpecDeep == Init /\ [][NextDeep]_vars

---------------------------------------------------------------------------
(* Runs on a long-lived terminal: the reader has handled at most one       *)
(* operation on the first line and then enough line feeds to leave the     *)
(* scrollback at most MaxCapShort + 1 rows short of HISTORY_CAP; at most   *)
(* MaxCapTail further operations follow.                                   *)

\* the reader thread handing n line feeds to LogHandler::execute, one after
\* the other
RECURSIVE feed(_, _)
feed(st, n) ==
    IF n = 0 THEN st
    ELSE IF n = 1 THEN execute(st, LF)
    ELSE LET half == feed(st, n \div 2)
         IN  IF half.rows >= 0 THEN feed(half, n - (n \div 2)) ELSE half

CapChars == {97}

CapBytes == {LF, CR}

CapCsi == {csi(<<7>>, "", "m"), csi(<<>>, "", "H")}

\* the terminal after its first line
CapHeads ==
    {new(InitRows, InitCols)}
      \cup {print(new(InitRows, InitCols), c) : c \in CapChars}
      \cup {csi_dispatch(new(InitRows, InitCols), t.params, t.intermediates, t.c) :
              t \in CapCsi}

InitCap ==
    /\ state \in {feed(h, HISTORY_CAP + InitRows - 2 - k) :
                    h \in CapHeads, k \in 0..MaxCapShort}
    /\ last_size = <<InitCols, InitRows>>
    /\ panicked = FALSE
    /\ steps = 0
    /\ alt_entry = NoEntry
    /\ called = NoCall
    /\ session = Running

NextCap ==
    \/ \E c \in CapChars : DoPrint(c, MaxCapTail)
    \/ \E byte \in CapBytes : DoExecute(byte, MaxCapTail)
    \/ \E t \in CapCsi : DoCsi(t, MaxCapTail)

SpecCap == InitCap /\ [][NextCap]_vars

---------------------------------------------------------------------------
(* Runs that call TerminalState::resize with any dimensions, zero          *)
(* included: at most MaxResizeSteps interpreter operations, then at most   *)
(* MaxResizeCalls calls of resize.                                         *)

ResizeChars == {97}

ResizeCsi == {csi(<<2, 3>>, "", "H"), csi(<<1049>>, "?", "h")}

\* the arguments of a call: zero, and up to one row more than the largest
\* display
ResizeRows == 0..(MaxRows + 1)
ResizeCols == 0..MaxCols

\* a call of TerminalState::resize
CallResize(rows, cols) ==
    /\ steps < MaxResizeSteps + MaxResizeCalls
    /\ state' = resize(state, rows, cols)
    /\ called' = Call(rows, cols)
    /\ alt_entry' = NoEntry
    /\ steps' = IF called.made THEN steps + 1 ELSE MaxResizeSteps + 1
    /\ UNCHANGED <<last_size, panicked, session>>

NextResize ==
    \/ /\ ~called.made
       /\ \E c \in ResizeChars : DoPrint(c, MaxResizeSteps)
    \/ /\ ~called.made
       /\ \E t \in ResizeCsi : DoCsi(t, MaxResizeSteps)
    \/ \E rows \in ResizeRows, cols \in ResizeCols : CallResize(rows, cols)

SpecResize == Init /\ [][NextResize]_vars

---------------------------------------------------------------------------
(* Runs of SGR sequences with one parameter and prints.                    *)

\* reset, inverse, the foreground codes 30..37 and 90..97, a background code
SgrCodes == {0, 7, 41} \cup (30..37) \cup (90..97)

SgrCsi == {csi(<<n>>, "", "m") : n \in SgrCodes}

NextSgr ==
    \/ \E c \in Chars : DoPrint(c, MaxSgrSteps)
    \/ \E t \in SgrCsi : DoCsi(t, MaxSgrSteps)

SpecSgr == Init /\ [][NextSgr]_vars

---------------------------------------------------------------------------
(* The session, statement by statement: on_tab_menu and                    *)
(* create_terminal_tab, the reader thread, and the frames of               *)
(* TerminalTab::ui, interleaved.                                           *)

\* the handler calls parser.advance makes for the bytes of a chunk
Op(kind, arg) == [kind |-> kind, arg |-> arg]

\* the chunks a read returns: one byte, or several
Chunks ==
    {<<Op("print", 97)>>,
     <<Op("print", 97), Op("execute", LF)>>,
     <<Op("csi", csi(<<1>>, "?", "h")), Op("print", 97), Op("print", 20013)>>}

op_panics(st, op) ==
    CASE op.kind = "print" -> print_panics(st, op.arg)
      [] op.kind = "csi" ->
            csi_panics(st, op.arg.params, op.arg.intermediates, op.arg.c)
      [] OTHER -> FALSE

apply_op(st, op) ==
    CASE op.kind = "print" -> print(st, op.arg)
      [] op.kind = "execute" -> execute(st, op.arg)
      [] op.kind = "csi" ->
            csi_dispatch(st, op.arg.params, op.arg.intermediates, op.arg.c)
      [] op.kind = "hook" ->
            hook(st, op.arg.params, op.arg.intermediates, op.arg.c)
      [] op.kind = "put" -> put(st, op.arg)
      [] op.kind = "unhook" -> unhook(st)
      [] op.kind = "osc_dispatch" -> osc_dispatch(st, op.arg, TRUE)
      [] op.kind = "esc_dispatch" -> esc_dispatch(st, "", op.arg)

\* egui::Event::Text and egui::Event::Key { pressed: true } of a key that
\* has a sequence
Events == {<<>>, <<"Text">>, <<"Key">>, <<"Key", "Text">>}

\* the sizes a frame computes: one that fails `rows > 2`, and the two largest
FrameRows == {2, MaxRows - 1, MaxRows}
FrameCols == {MaxCols - 1, MaxCols}

\* a lock that ignores its holder
MutLockNoWait(s, who) == TRUE

\* parking_lot Mutex::lock on TerminalTab.state returns once the lock is free
can_lock(s, who) == s.state_lock = "free"

\* the guard of TerminalTab.state is taken / dropped
locked(s, who) == [s EXCEPT !.state_lock = who]

\* a guard whose drop leaves the lock held
MutGuardKeepsLock(s) == s

unlocked(s) == [s EXCEPT !.state_lock = "free"]

\* the calls of create_terminal_tab that `?` follows, in order
next_call(call) ==
    CASE call = "openpty" -> "spawn_command"
      [] call = "spawn_command" -> "take_writer"
      [] call = "take_writer" -> "try_clone_reader"
      [] call = "try_clone_reader" -> "spawn"

\* a `?` that notes the error and goes on
MutContinueOnError(s, call, ok) ==
    [s EXCEPT !.create = next_call(call),
              !.error = IF ok THEN @ ELSE call,
              !.pty_size = PtySize(InitRows, InitCols)]

\* `call(..)?`: go on with the value, or return the error (the pair, and
\* with it the pseudo-terminal, is dropped)
question_mark(s, call, ok) ==
    IF ok THEN [s EXCEPT !.create = next_call(call),
                         !.pty_size = PtySize(InitRows, InitCols)]
          ELSE [s EXCEPT !.create = "returned",
                         !.result = "Err",
                         !.error = call,
                         !.pty_size = <<0, 0>>]

\* a reader that keeps the guard when a chunk is done
MutReaderKeepsLock(s) == [s EXCEPT !.reader = "read"]

\* the end of the `Ok(n) => { .. }` block drops the guard; the loop reads again
chunk_done(s) == [unlocked(s) EXCEPT !.reader = "read"]

\* VerbiumTabViewer::on_close returns OnCloseResponse::Close: the tab is
\* removed and dropped. TerminalTab has no Drop, and the Child that
\* spawn_command returned was dropped when create_terminal_tab returned.
on_close(s) == [s EXCEPT !.tab_open = FALSE, !.ui = "closed"]

\* a loop that goes on reading after Ok(0) or Err
MutReadEndLoops(s) == [s EXCEPT !.eof = TRUE]

\* `Ok(0) => break` and `Err(_) => break`: the loop ends, the closure returns
\* and the thread terminates
read_end(s) == [s EXCEPT !.eof = TRUE, !.reader = "exit"]

InitSession ==
    /\ state = new(InitRows, InitCols)
    /\ last_size = <<InitCols, InitRows>>
    /\ panicked = FALSE
    /\ steps = 0
    /\ alt_entry = NoEntry
    /\ called = NoCall
    /\ session = NoSession

\* on_tab_menu: the Terminal button is clicked
MenuClick ==
    /\ session.create = "menu"
    /\ session.clicks < MaxClicks
    /\ session' = [session EXCEPT !.create = "openpty", !.result = "None",
                                  !.error = "", !.clicks = @ + 1]
    /\ UNCHANGED <<state, last_size, panicked, steps, alt_entry, called>>

\* openpty, spawn_command, take_writer, try_clone_reader: each may fail
CreateCall(ok) ==
    /\ session.create \in {"openpty", "spawn_command", "take_writer", "try_clone_reader"}
    /\ session' = [question_mark(session, session.create, ok) EXCEPT
                      !.child = IF session.create = "spawn_command" /\ ok
                                  THEN "running" ELSE @]
    /\ UNCHANGED <<state, last_size, panicked, steps, alt_entry, called>>

\* the TerminalState is made and the reader thread spawned
CreateSpawn ==
    /\ session.create = "spawn"
    /\ state' = new(InitRows, InitCols)
    /\ session' = [session EXCEPT !.create = "ok", !.reader = "read"]
    /\ UNCHANGED <<last_size, panicked, steps, alt_entry, called>>

\* Ok(TerminalTab { .. })
CreateOk ==
    /\ session.create = "ok"
    /\ last_size' = <<InitCols, InitRows>>
    /\ session' = [session EXCEPT !.create = "returned", !.result = "Ok"]
    /\ UNCHANGED <<state, panicked, steps, alt_entry, called>>

\* on_tab_menu: `if let Ok(tab) = .. { control.push(OpenTab(..)) }`
MenuDone ==
    /\ session.create = "returned"
    /\ session' = IF session.result = "Ok"
                    THEN [session EXCEPT !.create = "done", !.tab_open = TRUE,
                                         !.ui = "idle"]
                    ELSE [session EXCEPT !.create = "menu"]
    /\ UNCHANGED <<state, last_size, panicked, steps, alt_entry, called>>

\* reader.read returns Ok(n), n > 0
ReaderRead(chunk) ==
    /\ session.reader = "read"
    /\ session.reads < MaxReads
    /\ session' = [session EXCEPT !.reader = "lock", !.chunk = chunk,
                                  !.reads = @ + 1]
    /\ UNCHANGED <<state, last_size, panicked, steps, alt_entry, called>>

\* reader.read returns Ok(0) or Err: the loop breaks
ReaderEnd ==
    /\ session.reader = "read"
    /\ session' = read_end(session)
    /\ UNCHANGED <<state, last_size, panicked, steps, alt_entry, called>>

\* state_for_thread.lock()
ReaderLock ==
    /\ session.reader = "lock"
    /\ can_lock(session, "reader")
    /\ session' = [locked(session, "reader") EXCEPT !.reader = "apply"]
    /\ UNCHANGED <<state, last_size, panicked, steps, alt_entry, called>>

\* parser.advance for the next byte that ends in a handler call; a panic
\* unwinds the thread and drops the guard
ReaderApply ==
    /\ session.reader = "apply"
    /\ session.chunk # <<>>
    /\ LET op == Head(session.chunk)
       IN  IF op_panics(state, op)
             THEN /\ panicked' = TRUE
                  /\ state' = state
                  /\ session' = [unlocked(session) EXCEPT !.reader = "exit"]
             ELSE /\ panicked' = panicked
                  /\ state' = apply_op(state, op)
                  /\ session' = [session EXCEPT !.chunk = Tail(@)]
    /\ UNCHANGED <<last_size, steps, alt_entry, called>>

\* the chunk is applied
ReaderChunkDone ==
    /\ session.reader = "apply"
    /\ session.chunk = <<>>
    /\ session' = chunk_done(session)
    /\ UNCHANGED <<state, last_size, panicked, steps, alt_entry, called>>

\* a frame starts: ui computes cols and rows and tests the size change
UiFrame(rows, cols, focus, events) ==
    /\ session.ui = "idle"
    /\ session.frames < MaxFrames
    /\ focus \/ events = <<>>
    /\ session' =
         [session EXCEPT
            !.rows = rows, !.cols = cols, !.focus = focus, !.events = events,
            !.frames = @ + 1,
            !.ui = IF cols > 2 /\ rows > 2
                      /\ (cols # last_size[1] \/ rows # last_size[2])
                     THEN "resize_lock" ELSE "focus"]
    /\ UNCHANGED <<state, last_size, panicked, steps, alt_entry, called>>

\* let mut state = self.state.lock()
UiResizeLock ==
    /\ session.ui = "resize_lock"
    /\ can_lock(session, "ui")
    /\ session' = [locked(session, "ui") EXCEPT !.ui = "resize_grid"]
    /\ UNCHANGED <<state, last_size, panicked, steps, alt_entry, called>>

\* state.resize(rows, cols)
UiResizeGrid ==
    /\ session.ui = "resize_grid"
    /\ state' = resize(state, session.rows, session.cols)
    /\ session' = [session EXCEPT !.ui = "resize_pty"]
    /\ UNCHANGED <<last_size, panicked, steps, alt_entry, called>>

\* self.master.lock().resize(PtySize { .. })
UiResizePty ==
    /\ session.ui = "resize_pty"
    /\ session' = [session EXCEPT !.pty_size = PtySize(session.rows, session.cols),
                                  !.ui = "resize_done"]
    /\ UNCHANGED <<state, last_size, panicked, steps, alt_entry, called>>

\* self.last_size = (cols, rows); the guard drops at the end of the block
UiResizeDone ==
    /\ session.ui = "resize_done"
    /\ last_size' = <<session.cols, session.rows>>
    /\ session' = [unlocked(session) EXCEPT !.ui = "focus"]
    /\ UNCHANGED <<state, panicked, steps, alt_entry, called>>

\* if response.has_focus()
UiFocus ==
    /\ session.ui = "focus"
    /\ session' = [session EXCEPT !.ui = IF session.focus THEN "ime_lock"
                                                          ELSE "paint_bg"]
    /\ UNCHANGED <<state, last_size, panicked, steps, alt_entry, called>>

\* the block that places the IME rectangle: let state = self.state.lock()
UiImeLock ==
    /\ session.ui = "ime_lock"
    /\ can_lock(session, "ui")
    /\ session' = [locked(session, "ui") EXCEPT !.ui = "ime"]
    /\ UNCHANGED <<state, last_size, panicked, steps, alt_entry, called>>

\* .. and its end
UiIme ==
    /\ session.ui = "ime"
    /\ session' = [unlocked(session) EXCEPT !.ui = "input"]
    /\ UNCHANGED <<state, last_size, panicked, steps, alt_entry, called>>

\* ui.input: let mut w = self.writer.lock()
UiInput ==
    /\ session.ui = "input"
    /\ session.writer_lock = "free"
    /\ session' = [session EXCEPT !.writer_lock = "ui", !.ui = "events"]
    /\ UNCHANGED <<state, last_size, panicked, steps, alt_entry, called>>

\* Event::Text(text) => w.write_all(text.as_bytes())
UiEventText ==
    /\ session.ui = "events"
    /\ session.events # <<>>
    /\ Head(session.events) = "Text"
    /\ session' = [session EXCEPT !.events = Tail(@), !.written = @ + 1]
    /\ UNCHANGED <<state, last_size, panicked, steps, alt_entry, called>>

\* Event::Key: self.state.lock() ..
UiKeyLock ==
    /\ session.ui = "events"
    /\ session.events # <<>>
    /\ Head(session.events) = "Key"
    /\ can_lock(session, "ui")
    /\ session' = [locked(session, "ui") EXCEPT !.ui = "key_read"]
    /\ UNCHANGED <<state, last_size, panicked, steps, alt_entry, called>>

\* .. .application_cursor; the temporary guard drops with the statement
UiKeyRead ==
    /\ session.ui = "key_read"
    /\ session' = [unlocked(session) EXCEPT
                      !.is_app_mode = state.application_cursor,
                      !.ui = "key_write"]
    /\ UNCHANGED <<state, last_size, panicked, steps, alt_entry, called>>

\* if let Some(s) = seq { w.write_all(s.as_bytes()) }
UiKeyWrite ==
    /\ session.ui = "key_write"
    /\ session' = [session EXCEPT !.events = Tail(@), !.written = @ + 1,
                                  !.ui = "events"]
    /\ UNCHANGED <<state, last_size, panicked, steps, alt_entry, called>>

\* w.flush(); the closure ends and drops the writer's guard
UiFlush ==
    /\ session.ui = "events"
    /\ session.events = <<>>
    /\ session' = [session EXCEPT !.writer_lock = "free", !.ui = "paint_bg"]
    /\ UNCHANGED <<state, last_size, panicked, steps, alt_entry, called>>

\* painter.rect_filled(rect, 0.0, TERM_BG)
UiPaintBackground ==
    /\ session.ui = "paint_bg"
    /\ session' = [session EXCEPT !.ui = "paint_lock"]
    /\ UNCHANGED <<state, last_size, panicked, steps, alt_entry, called>>

\* let state = self.state.lock()
UiPaintLock ==
    /\ session.ui = "paint_lock"
    /\ can_lock(session, "ui")
    /\ session' = [locked(session, "ui") EXCEPT !.ui = "paint_rows"]
    /\ UNCHANGED <<state, last_size, panicked, steps, alt_entry, called>>

\* the loop over the visible rows, the cursor and the scroll handle: every
\* painter call of the frame after the background
UiPaintRows ==
    /\ session.ui = "paint_rows"
    /\ session' = [session EXCEPT !.ui = "frame_end"]
    /\ UNCHANGED <<state, last_size, panicked, steps, alt_entry, called>>

\* ui.ctx().request_repaint(); ui returns and the guard drops
UiFrameEnd ==
    /\ session.ui = "frame_end"
    /\ session' = [unlocked(session) EXCEPT !.ui = "idle"]
    /\ UNCHANGED <<state, last_size, panicked, steps, alt_entry, called>>

\* the tab's close button: on_close answers Close and the dock drops the
\* tab, and with it the TerminalTab's state, master and writer; the reader
\* thread keeps its own clones (state_for_thread, reader)
TabClose ==
    /\ session.tab_open
    /\ session.ui = "idle"
    /\ session' = on_close(session)
    /\ UNCHANGED <<state, last_size, panicked, steps, alt_entry, called>>

NextSession ==
    \/ MenuClick
    \/ \E ok \in BOOLEAN : CreateCall(ok)
    \/ CreateSpawn
    \/ CreateOk
    \/ MenuDone
    \/ \E chunk \in Chunks : ReaderRead(chunk)
    \/ ReaderEnd
    \/ ReaderLock
    \/ ReaderApply
    \/ ReaderChunkDone
    \/ \E rows \in FrameRows, cols \in FrameCols, focus \in BOOLEAN,
          events \in Events : UiFrame(rows, cols, focus, events)
    \/ UiResizeLock
    \/ UiResizeGrid
    \/ UiResizePty
    \/ UiResizeDone
    \/ UiFocus
    \/ UiImeLock
    \/ UiIme
    \/ UiInput
    \/ UiEventText
    \/ UiKeyLock
    \/ UiKeyRead
    \/ UiKeyWrite
    \/ UiFlush
    \/ UiPaintBackground
    \/ UiPaintLock
    \/ UiPaintRows
    \/ UiFrameEnd
    \/ TabClose

SpecSession == InitSession /\ [][NextSession]_vars

\* the steps the reader thread takes by itself, once read has returned
ReaderStep == ReaderLock \/ ReaderApply \/ ReaderChunkDone

\* the steps of a frame, once it has started
UiFrameStep ==
    \/ UiResizeLock \/ UiResizeGrid \/ UiResizePty \/ UiResizeDone
    \/ UiFocus \/ UiImeLock \/ UiIme \/ UiInput \/ UiEventText
    \/ UiKeyLock \/ UiKeyRead \/ UiKeyWrite \/ UiFlush
    \/ UiPaintBackground \/ UiPaintLock \/ UiPaintRows \/ UiFrameEnd

\* the same session under a scheduler that lets every runnable thread run.
\* What read returns, and when, is the pseudo-terminal's doing: no fairness
\* makes a blocked read return.
SpecSessionFair ==
    /\ InitSession
    /\ [][NextSession]_vars
    /\ WF_vars(MenuDone \/ CreateSpawn \/ CreateOk)
    /\ SF_vars(ReaderStep)
    /\ SF_vars(UiFrameStep)

---------------------------------------------------------------------------
(* The two threads of an open tab and their locks.                         *)

\* after on_tab_menu has opened the tab: create_terminal_tab returned Ok,
\* the reader thread is in its first read and no frame has been drawn
InitLocks ==
    /\ state = new(InitRows, InitCols)
    /\ last_size = <<InitCols, InitRows>>
    /\ panicked = FALSE
    /\ steps = 0
    /\ alt_entry = NoEntry
    /\ called = NoCall
    /\ session = [NoSession EXCEPT
                    !.create = "done", !.result = "Ok", !.tab_open = TRUE,
                    !.child = "running", !.clicks = 1, !.reader = "read",
                    !.ui = "idle", !.pty_size = PtySize(InitRows, InitCols)]

\* a chunk of two handler calls
LockChunks == {<<Op("print", 97), Op("execute", LF)>>}

\* no event, and a key followed by a text
LockEvents == {<<>>, <<"Key", "Text">>}

NextLocks ==
    \/ \E chunk \in LockChunks : ReaderRead(chunk)
    \/ ReaderEnd
    \/ ReaderStep
    \/ \E cols \in FrameCols, focus \in BOOLEAN, events \in LockEvents :
          UiFrame(MaxRows, cols, focus, events)
    \/ UiFrameStep

\* under a scheduler that lets every runnable thread run (what read
\* returns, and when, is the pseudo-terminal's doing)
SpecLocks ==
    /\ InitLocks
    /\ [][NextLocks]_vars
    /\ SF_vars(ReaderStep)
    /\ SF_vars(UiFrameStep)

---------------------------------------------------------------------------
(* Runs of single handler calls, the last call recorded.                   *)

\* the state a handler call leaves: print has wrapped and scrolled before it
\* indexes the grid, the CSI arms panic before they write
op_result(st, op) ==
    IF op_panics(st, op)
      THEN IF op.kind = "print" THEN print_wrapped(st, op.arg) ELSE st
      ELSE apply_op(st, op)

\* the last of CSI ?1h and CSI ?1l once op is handled: a CSI h or l with the
\* `?` intermediate and a parameter 1
mode_1_after(mode_1, op) ==
    IF /\ op.kind = "csi"
       /\ op.arg.intermediates = "?"
       /\ op.arg.c \in {"h", "l"}
       /\ count_of(op.arg.params, 1) > 0
      THEN op.arg.c
      ELSE mode_1

\* parser.advance ends a sequence and makes one handler call
Perform(op, bound) ==
    /\ steps < bound
    /\ ~panicked
    /\ panicked' = op_panics(state, op)
    /\ state' = op_result(state, op)
    /\ alt_entry' = IF op.kind = "csi" /\ ~op_panics(state, op)
                      THEN entry_after(alt_entry, state, op.arg)
                      ELSE alt_entry
    /\ session' = [session EXCEPT !.last_call = op,
                                  !.mode_1 = mode_1_after(@, op)]
    /\ steps' = steps + 1
    /\ UNCHANGED <<last_size, called>>

---------------------------------------------------------------------------
(* Runs with sequences the interpreter does not implement.                 *)

MaxNoOpSteps == 3

\* calls that build a state: a print, a line feed, attributes, a cursor
\* position, the alternate screen, the two modes
NoOpBase ==
    {Op("print", 97), Op("execute", LF),
     Op("csi", csi(<<7>>, "", "m")), Op("csi", csi(<<2, 3>>, "", "H")),
     Op("csi", csi(<<1049>>, "?", "h")), Op("csi", csi(<<25>>, "?", "l")),
     Op("csi", csi(<<1>>, "?", "h"))}

\* CSI sequences that fall to the `_ => {}` arm: finals without an arm, and
\* h / l without the `?` intermediate or with another one
OtherCsi ==
    {csi(<<>>, "", "S"), csi(<<2>>, "", "L"), csi(<<6>>, "", "n"),
     csi(<<1>>, "", "@"), csi(<<2>>, "", "M"), csi(<<0>>, "", "c"),
     csi(<<1049>>, "", "h"), csi(<<25>>, "", "l"), csi(<<1>>, "", "h"),
     csi(<<1049>>, ">", "l"), csi(<<2>>, "?", "J")}

\* the ESC, OSC and DCS callbacks
OtherCalls ==
    {Op("esc_dispatch", 55), Op("esc_dispatch", 99),
     Op("osc_dispatch", <<0, 97>>),
     Op("hook", csi(<<1>>, "$", "q")), Op("put", 97), Op("unhook", 0)}

NextNoOp ==
    \/ \E op \in NoOpBase : Perform(op, MaxNoOpSteps)
    \/ \E t \in OtherCsi : Perform(Op("csi", t), MaxNoOpSteps)
    \/ \E op \in OtherCalls : Perform(op, MaxNoOpSteps)

SpecNoOp == Init /\ [][NextNoOp]_vars

---------------------------------------------------------------------------
(* Keyboard input: the events of a focused frame, one at a time, between   *)
(* handler calls of the reader.                                            *)

MaxInputSteps == 3

\* str::as_bytes of a one-character string: the UTF-8 encoding of c
utf8(c) ==
    IF c < 128 THEN <<c>>
    ELSE IF c < 2048 THEN <<192 + (c \div 64), 128 + (c % 64)>>
    ELSE <<224 + (c \div 4096), 128 + ((c \div 64) % 64), 128 + (c % 64)>>

\* text.as_bytes()
RECURSIVE as_bytes(_)
as_bytes(text) ==
    IF text = <<>> THEN <<>> ELSE utf8(Head(text)) \o as_bytes(Tail(text))

\* an encoder that sends the normal arrow sequences in both modes
MutSeqArrowsNormal(key, ctrl, is_app_mode) ==
    CASE key = "Enter" -> <<<<13>>>>
      [] key = "Backspace" -> IF ctrl THEN <<<<23>>>> ELSE <<<<127>>>>
      [] key = "ArrowUp" -> <<<<ESC, 91, 65>>>>
      [] key = "ArrowDown" -> <<<<ESC, 91, 66>>>>
      [] key = "ArrowRight" -> <<<<ESC, 91, 67>>>>
      [] key = "ArrowLeft" -> <<<<ESC, 91, 68>>>>
      [] key = "Tab" -> <<<<9>>>>
      [] key = "Escape" -> <<<<ESC>>>>
      [] key = "C" /\ ctrl -> <<<<3>>>>
      [] key = "D" /\ ctrl -> <<<<4>>>>
      [] key = "L" /\ ctrl -> <<<<12>>>>
      [] key = "Z" /\ ctrl -> <<<<26>>>>
      [] OTHER -> <<>>

\* `let seq = match key { .. }`: Some(s) as <<the bytes of s>>, None as <<>>
seq(key, ctrl, is_app_mode) ==
    CASE key = "Enter" -> <<<<13>>>>
      [] key = "Backspace" -> IF ctrl THEN <<<<23>>>> ELSE <<<<127>>>>
      [] key = "ArrowUp" ->
            IF is_app_mode THEN <<<<ESC, 79, 65>>>> ELSE <<<<ESC, 91, 65>>>>
      [] key = "ArrowDown" ->
            IF is_app_mode THEN <<<<ESC, 79, 66>>>> ELSE <<<<ESC, 91, 66>>>>
      [] key = "ArrowRight" ->
            IF is_app_mode THEN <<<<ESC, 79, 67>>>> ELSE <<<<ESC, 91, 67>>>>
      [] key = "ArrowLeft" ->
            IF is_app_mode THEN <<<<ESC, 79, 68>>>> ELSE <<<<ESC, 91, 68>>>>
      [] key = "Tab" -> <<<<9>>>>
      [] key = "Escape" -> <<<<ESC>>>>
      [] key = "C" /\ ctrl -> <<<<3>>>>
      [] key = "D" /\ ctrl -> <<<<4>>>>
      [] key = "L" /\ ctrl -> <<<<12>>>>
      [] key = "Z" /\ ctrl -> <<<<26>>>>
      [] OTHER -> <<>>

\* the bytes one egui event makes ui write: Event::Text, Event::Key with
\* pressed: true, or any other event
event_bytes(st, event) ==
    CASE event.kind = "Text" -> as_bytes(event.text)
      [] event.kind = "Key" /\ event.pressed ->
            LET is_app_mode == st.application_cursor
            IN  unwrap_or(seq(event.key, event.ctrl, is_app_mode), <<>>)
      [] OTHER -> <<>>

Arrows == {"ArrowUp", "ArrowDown", "ArrowRight", "ArrowLeft"}

\* the keys with a sequence, a letter without one, and a function key
Keys ==
    Arrows \cup {"Enter", "Backspace", "Tab", "Escape", "C", "D", "L", "Z",
                 "A", "F1"}

Text(text) == [kind |-> "Text", text |-> text]

Key(key, pressed, ctrl) ==
    [kind |-> "Key", key |-> key, pressed |-> pressed, ctrl |-> ctrl]

\* 'a', "ab", and a character of three UTF-8 bytes
Texts == {<<97>>, <<97, 98>>, <<20013>>}

InputEvents ==
    {Text(text) : text \in Texts}
      \cup {Key(key, pressed, ctrl) :
               key \in Keys, pressed \in BOOLEAN, ctrl \in BOOLEAN}
      \cup {[kind |-> "PointerMoved"]}

\* the handler calls of the runs: the two modes set and reset, alone, with
\* other parameters and without the `?`; the alternate screen; a print
InputOps ==
    {Op("csi", csi(<<1>>, "?", "h")), Op("csi", csi(<<1>>, "?", "l")),
     Op("csi", csi(<<25, 1>>, "?", "h")), Op("csi", csi(<<1, 1049>>, "?", "l")),
     Op("csi", csi(<<25>>, "?", "l")), Op("csi", csi(<<1049>>, "?", "h")),
     Op("csi", csi(<<1>>, "", "h")), Op("csi", csi(<<1>>, "", "l")),
     Op("print", 97)}

\* one event of `for event in &i.events`
InputEvent(event) ==
    /\ steps < MaxInputSteps
    /\ ~panicked
    /\ session' = [session EXCEPT
                      !.is_app_mode = IF event.kind = "Key" /\ event.pressed
                                        THEN state.application_cursor ELSE @,
                      !.sent = event_bytes(state, event),
                      !.written = IF event_bytes(state, event) # <<>>
                                    THEN @ + 1 ELSE @]
    /\ steps' = steps + 1
    /\ UNCHANGED <<state, last_size, panicked, alt_entry, called>>

NextInput ==
    \/ \E op \in InputOps : Perform(op, MaxInputSteps)
    \/ \E event \in InputEvents : InputEvent(event)

SpecInput == Init /\ [][NextInput]_vars

---------------------------------------------------------------------------
(* The visible row range: whole frames of TerminalTab::ui, with the wheel, *)
(* between handler calls of the reader.                                    *)

MaxViewSteps == 4

\* total.saturating_sub(1 + offset) and bottom.saturating_sub(rows - 1).
\* `rows - 1` overflows when the frame has no row: a build with overflow
\* checks panics, any other wraps to usize::MAX, which saturates top to 0.
viewport(total, offset, rows) ==
    LET viewport_bottom_idx == saturating_sub(total, 1 + offset)
        viewport_top_idx == IF rows = 0 THEN 0
                            ELSE saturating_sub(viewport_bottom_idx, rows - 1)
    IN  [offset |-> offset,
         top |-> viewport_top_idx,
         bottom |-> viewport_bottom_idx,
         overflow |-> rows = 0]

\* the range of the block that places the IME rectangle
ime_viewport(st, scroll_offset, rows) ==
    viewport(Len(st.history) + Len(grid(st)), scroll_offset, rows)

\* the range the row loop paints
render_viewport(st, scroll_offset, rows) ==
    LET history_len == Len(st.history)
        total_content_rows == history_len + Len(grid(st))
        max_scroll == history_len
        current_scroll == min(scroll_offset, max_scroll)
    IN  viewport(total_content_rows, current_scroll, rows)

\* Vec::get / VecDeque::get: <<element>>, or <<>> (None) past the end
get(v, index) == IF index < Len(v) THEN <<v[index + 1]>> ELSE <<>>

\* a row loop that indexes the active grid with data_idx
MutRowCellsGrid(st, data_idx) ==
    [from |-> "grid", index |-> data_idx, cells |-> get(grid(st), data_idx)]

\* row_cells of the row loop for one data_idx, with where it was taken from
row_cells(st, data_idx) ==
    LET history_len == Len(st.history)
    IN  IF data_idx < history_len
          THEN [from |-> "history", index |-> data_idx,
                cells |-> get(st.history, data_idx)]
          ELSE [from |-> "grid", index |-> data_idx - history_len,
                cells |-> get(grid(st), data_idx - history_len)]

\* the `for r_vis in 0..rows` loop: the row each display row shows
row_loop(st, viewport_top_idx, rows) ==
    [r \in 1..rows |-> row_cells(st, viewport_top_idx + (r - 1))]

\* the wheel over the hovered terminal: saturating_add / saturating_sub (the
\* offsets of these runs stay far below usize::MAX)
wheel(scroll_offset, rows_scrolled) ==
    IF rows_scrolled > 0 THEN scroll_offset + rows_scrolled
    ELSE saturating_sub(scroll_offset, 0 - rows_scrolled)

\* a panel shorter than one line, and the two largest displays
ViewRows == {0, MaxRows - 1, MaxRows}

\* the wheel at rest, down one row, up one and two rows
ViewScrolls == {0, 0 - 1, 1, 2}

\* a line feed, and CSI 9;1 H, which puts the cursor on the last row
ViewOps == {Op("execute", LF), Op("csi", csi(<<9, 1>>, "", "H"))}

\* one frame of TerminalTab::ui on a hovered terminal: the resize, the IME
\* range if the terminal has the focus, the wheel, the painted range.
\* checks: the build has overflow checks
ViewFrame(rows, focus, rows_scrolled, checks) ==
    /\ steps < MaxViewSteps
    /\ ~panicked
    /\ LET cols == last_size[1]
           resized == cols > 2 /\ rows > 2 /\ rows # last_size[2]
           st == IF resized THEN resize(state, rows, cols) ELSE state
           ime == IF focus THEN <<ime_viewport(st, session.scroll_offset, rows)>>
                           ELSE <<>>
           offset == wheel(session.scroll_offset, rows_scrolled)
           painted == render_viewport(st, offset, rows)
           panics == checks /\ painted.overflow
       IN  /\ state' = st
           /\ last_size' = IF resized THEN <<cols, rows>> ELSE last_size
           /\ panicked' = panics
           /\ session' =
                [session EXCEPT
                   !.rows = rows, !.cols = cols, !.focus = focus,
                   !.frames = @ + 1,
                   !.pty_size = IF resized THEN PtySize(rows, cols) ELSE @,
                   !.ime_window = ime,
                   !.scroll_offset = IF panics /\ focus THEN @ ELSE offset,
                   !.render_window = IF panics THEN <<>> ELSE <<painted>>,
                   !.rows_painted = IF panics THEN <<>>
                                    ELSE row_loop(st, painted.top, rows)]
    /\ steps' = steps + 1
    /\ UNCHANGED <<alt_entry, called>>

NextView ==
    \/ \E op \in ViewOps : Perform(op, MaxViewSteps)
    \/ \E rows \in ViewRows, focus \in BOOLEAN, rows_scrolled \in ViewScrolls,
          checks \in BOOLEAN : ViewFrame(rows, focus, rows_scrolled, checks)

SpecView == Init /\ [][NextView]_vars

---------------------------------------------------------------------------
(* Runs on a terminal wide enough for a tab stop: cursor movement, cursor  *)
(* positioning and control bytes.                                          *)

WideCols == 10

MaxCursorSteps == 3

\* the terminal create_terminal_tab makes, WideCols columns wide
InitWide ==
    /\ state = new(InitRows, WideCols)
    /\ last_size = <<WideCols, InitRows>>
    /\ panicked = FALSE
    /\ steps = 0
    /\ alt_entry = NoEntry
    /\ called = NoCall
    /\ session = [Running EXCEPT !.pty_size = PtySize(InitRows, WideCols)]

\* calls that build a state: a print, a line feed, the cursor put inside the
\* grid and on its last column
CursorBase ==
    {Op("print", 97), Op("execute", LF),
     Op("csi", csi(<<2, 3>>, "", "H")), Op("csi", csi(<<1, 99>>, "", "H"))}

\* CSI A, B, C, D without a parameter, with 0, and with counts that stay
\* inside the grid and that pass its edge
MoveCsi ==
    {csi(params, "", c) : params \in {<<>>, <<0>>, <<2>>, <<99>>},
                         c \in {"A", "B", "C", "D"}}

NextMove ==
    \/ \E op \in CursorBase : Perform(op, MaxCursorSteps)
    \/ \E t \in MoveCsi : Perform(Op("csi", t), MaxCursorSteps)

SpecMove == InitWide /\ [][NextMove]_vars

\* CSI H, f with both, one and no parameter, zeros, and positions past the
\* grid; CSI G and d the same
PositionCsi ==
    {csi(params, "", c) :
        params \in {<<>>, <<0, 0>>, <<3>>, <<2, 5>>, <<0, 4>>, <<99, 99>>, <<1, 1>>},
        c \in {"H", "f"}}
      \cup {csi(params, "", c) :
               params \in {<<>>, <<0>>, <<1>>, <<3>>, <<99>>}, c \in {"G", "d"}}

NextPosition ==
    \/ \E op \in CursorBase : Perform(op, MaxCursorSteps)
    \/ \E t \in PositionCsi : Perform(Op("csi", t), MaxCursorSteps)

SpecPosition == InitWide /\ [][NextPosition]_vars

\* the control bytes of execute and one it ignores (BEL)
ControlOps == {Op("execute", byte) : byte \in Bytes}

\* the cursor put on the last row and past a tab stop
ControlBase ==
    CursorBase \cup {Op("csi", csi(<<99, 1>>, "", "H")), Op("csi", csi(<<9>>, "", "G"))}

NextControl ==
    \/ \E op \in ControlBase : Perform(op, MaxCursorSteps)
    \/ \E op \in ControlOps : Perform(op, MaxCursorSteps)

SpecControl == InitWide /\ [][NextControl]_vars

---------------------------------------------------------------------------
(* Runs with the erase sequences CSI J and CSI K.                          *)

MaxEraseSteps == 4

\* calls that build a state: a print, a line feed that may scroll, the
\* inverse attribute, a cursor position, the alternate screen
EraseBase ==
    {Op("print", 97), Op("execute", LF), Op("csi", csi(<<7>>, "", "m")),
     Op("csi", csi(<<9, 2>>, "", "H")),
     Op("csi", csi(<<1049>>, "?", "h")), Op("csi", csi(<<1049>>, "?", "l"))}

\* CSI J with parameter 2, with the other erase modes, with none, and with
\* a second parameter
DisplayCsi ==
    {csi(params, "", "J") :
        params \in {<<2>>, <<>>, <<0>>, <<1>>, <<3>>, <<2, 0>>, <<0, 2>>}}

NextErase ==
    \/ \E op \in EraseBase : Perform(op, MaxEraseSteps)
    \/ \E t \in DisplayCsi : Perform(Op("csi", t), MaxEraseSteps)

SpecErase == Init /\ [][NextErase]_vars

MaxLineSteps == 6

\* a print, the cursor put inside the line and on the last column, the
\* alternate screen entered and left
LineBase ==
    {Op("print", 97), Op("csi", csi(<<1, 3>>, "", "H")),
     Op("csi", csi(<<1, 99>>, "", "H")),
     Op("csi", csi(<<1049>>, "?", "h")), Op("csi", csi(<<1049>>, "?", "l"))}

LineCsi == {csi(<<>>, "", "K")}

\* a frame of TerminalTab::ui whose display size changed, between two
\* handler calls
ResizeFrame(rows, cols, bound) ==
    /\ steps < bound
    /\ cols > 2 /\ rows > 2
    /\ cols # last_size[1] \/ rows # last_size[2]
    /\ state' = resize(state, rows, cols)
    /\ last_size' = <<cols, rows>>
    /\ alt_entry' = NoEntry
    /\ session' = [session EXCEPT !.last_call = Op("resize", <<rows, cols>>),
                                  !.pty_size = PtySize(rows, cols)]
    /\ steps' = steps + 1
    /\ UNCHANGED <<panicked, called>>

\* the frames are of a display one column narrower than the terminal was
\* made
NextLine ==
    \/ \E op \in LineBase : Perform(op, MaxLineSteps)
    \/ \E t \in LineCsi : Perform(Op("csi", t), MaxLineSteps)
    \/ ResizeFrame(InitRows, WideCols - 1, MaxLineSteps)

SpecLine == InitWide /\ [][NextLine]_vars

MaxCharsSteps == 5

\* a print, the cursor put inside a line, on the last column and on the last
\* row, the alternate screen entered and left
CharsBase ==
    {Op("print", 97), Op("csi", csi(<<1, 3>>, "", "H")),
     Op("csi", csi(<<1, 99>>, "", "H")), Op("csi", csi(<<99, 1>>, "", "H")),
     Op("csi", csi(<<1049>>, "?", "h")), Op("csi", csi(<<1049>>, "?", "l"))}

\* CSI X without a count, with counts 0 and 2 and with a count past the line
EraseCharsCsi ==
    {csi(<<>>, "", "X"), csi(<<0>>, "", "X"), csi(<<2>>, "", "X"),
     csi(<<99>>, "", "X")}

\* the frames are of a display one row lower than the terminal was made
NextEraseChars ==
    \/ \E op \in CharsBase : Perform(op, MaxCharsSteps)
    \/ \E t \in EraseCharsCsi : Perform(Op("csi", t), MaxCharsSteps)
    \/ ResizeFrame(InitRows - 1, WideCols, MaxCharsSteps)

SpecEraseChars == InitWide /\ [][NextEraseChars]_vars

\* two prints that differ, the cursor put on the first column, on the last
\* column and on the last row, the alternate screen entered and left
DeleteBase ==
    {Op("print", 97), Op("print", 98), Op("csi", csi(<<1, 1>>, "", "H")),
     Op("csi", csi(<<1, 99>>, "", "H")), Op("csi", csi(<<99, 1>>, "", "H")),
     Op("csi", csi(<<1049>>, "?", "h")), Op("csi", csi(<<1049>>, "?", "l"))}

\* CSI P without a count, with counts 0 and 2 and with a count past the line
DeleteCsi ==
    {csi(<<>>, "", "P"), csi(<<0>>, "", "P"), csi(<<2>>, "", "P"),
     csi(<<99>>, "", "P")}

\* the frames are of a display one row lower than the terminal was made
NextDelete ==
    \/ \E op \in DeleteBase : Perform(op, MaxCharsSteps)
    \/ \E t \in DeleteCsi : Perform(Op("csi", t), MaxCharsSteps)
    \/ ResizeFrame(InitRows - 1, WideCols, MaxCharsSteps)

SpecDelete == InitWide /\ [][NextDelete]_vars

\* SGR sequences of several parameters: the indexed and the literal forms
\* for both colors, with indexes inside and past the table of ansi_color,
\* codes before and after them, an unrecognized code first, a reset first
\* and last, and forms cut short
SgrLists ==
    {<<38, 5, 1>>, <<48, 5, 9>>, <<38, 5, 200>>, <<48, 5, 200>>,
     <<38, 2, 10, 20, 30>>, <<48, 2, 1, 2, 3>>,
     <<1, 31>>, <<31, 0>>, <<0, 7, 42>>,
     <<38, 5, 1, 7>>, <<48, 2, 1, 2, 3, 95>>,
     <<99, 38, 5, 2, 48, 2, 4, 5, 6, 27>>,
     <<38, 5>>, <<38, 2, 10>>, <<38, 7, 31>>, <<48>>}

SgrListCsi == {csi(params, "", "m") : params \in SgrLists}

NextSgrList ==
    \/ Perform(Op("print", 97), MaxSgrSteps)
    \/ \E t \in SgrListCsi : Perform(Op("csi", t), MaxSgrSteps)

SpecSgrList == Init /\ [][NextSgrList]_vars

---------------------------------------------------------------------------
(* The reader thread alone, byte by byte: a stream of the shell read in    *)
(* chunks of any length.                                                   *)

\* the length of `buffer`
BufferLen == 8192

\* a reader that makes its parser anew for every chunk
MutParserPerChunk(parser) == ParserNew

\* the `parser` a chunk is handled with: the one declared before the loop,
\* as the chunk before left it
chunk_parser(parser) == parser

\* `for byte in &buffer[..n] { parser.advance(&mut handler, *byte); }` from
\* the i-th byte of the chunk on; r is the state, the parser and whether a
\* handler call has panicked
RECURSIVE advance_all(_, _, _)
advance_all(r, bytes, i) ==
    IF i > Len(bytes) \/ r.panicked THEN r
    ELSE
      LET a == advance(r.parser, bytes[i])
      IN  IF a.calls = <<>>
            THEN advance_all([r EXCEPT !.parser = a.parser], bytes, i + 1)
            ELSE advance_all(
                   [state |-> op_result(r.state, a.calls[1]),
                    parser |-> a.parser,
                    panicked |-> op_panics(r.state, a.calls[1])],
                   bytes, i + 1)

\* what the shell writes: a color, a wide character, a letter and a line
\* feed; a letter, the alternate screen, a wide character, a cursor
\* position and a letter; an indexed color, a letter, a carriage return and
\* an erase
Streams ==
    {<<ESC, 91, 51, 49, 109>> \o utf8(20013) \o <<97, LF>>,
     <<97, ESC, 91, 63, 49, 48, 52, 57, 104>> \o utf8(20013)
        \o <<ESC, 91, 50, 59, 50, 72, 98>>,
     <<ESC, 91, 51, 56, 59, 53, 59, 49, 109, 97, CR, ESC, 91, 75>>}

InitChunks ==
    /\ state = new(InitRows, InitCols)
    /\ last_size = <<InitCols, InitRows>>
    /\ panicked = FALSE
    /\ steps = 0
    /\ alt_entry = NoEntry
    /\ called = NoCall
    /\ \E stream \in Streams :
          session = [Running EXCEPT !.stream = stream, !.reader = "read"]

\* reader.read returns Ok(n), n > 0: the next n bytes of the stream are
\* handled under the state lock
ReadChunk(n) ==
    /\ session.reader = "read"
    /\ ~panicked
    /\ n \in 1..min(Len(session.stream) - session.consumed, BufferLen)
    /\ LET buffer == SubSeq(session.stream, session.consumed + 1,
                            session.consumed + n)
           r == advance_all([state |-> state,
                             parser |-> chunk_parser(session.parser),
                             panicked |-> FALSE], buffer, 1)
       IN  /\ state' = r.state
           /\ panicked' = r.panicked
           /\ session' = [session EXCEPT !.parser = r.parser,
                                         !.consumed = @ + n,
                                         !.reads = @ + 1,
                                         !.reader = IF r.panicked THEN "exit"
                                                                  ELSE "read"]
    /\ UNCHANGED <<last_size, steps, alt_entry, called>>

\* reader.read returns Ok(0) after the shell has closed its end
ReadEof ==
    /\ session.reader = "read"
    /\ session.consumed = Len(session.stream)
    /\ session' = read_end(session)
    /\ UNCHANGED <<state, last_size, panicked, steps, alt_entry, called>>

NextChunks ==
    \/ \E n \in 1..BufferLen : ReadChunk(n)
    \/ ReadEof

SpecChunks == InitChunks /\ [][NextChunks]_vars

---------------------------------------------------------------------------
(* Claims *)

\* C1: the interpreter is total: no interpreter operation, in any state
\* reached through interpreter operations and resizes, panics.
InterpreterTotal == ~panicked

\* C2: in every state, the primary and the alternate grid have exactly
\* `rows` rows and every row has exactly `cols` cells.
GridShape ==
    \A g \in {state.primary_grid, state.alt_grid} :
        /\ Len(g) = state.rows
        /\ \A i \in 1..Len(g) : Len(g[i]) = state.cols

\* a state with grids resized below their initial height and above their
\* initial width, after a row was scrolled off the primary grid
GridShapeWitness ==
    /\ state.rows < InitRows
    /\ state.cols > InitCols
    /\ Len(state.history) > 0

\* C3: in every state, 0 <= cursor_row <= rows - 1 and
\* 0 <= cursor_col <= cols - 1.
CursorInBounds ==
    /\ 0 <= state.cursor_row /\ state.cursor_row <= state.rows - 1
    /\ 0 <= state.cursor_col /\ state.cursor_col <= state.cols - 1

\* the cell print writes for character c in state st
PrintedCell(st, c) ==
    Cell(c, st.current_fg, st.current_bg, st.current_inverse, FALSE)

\* the continuation cell print writes after a double-width character
ContinuationCell(st) ==
    Cell(SPACE, st.current_fg, st.current_bg, st.current_inverse, TRUE)

\* a step in which the reader applies a line feed that calls scroll_up
ScrollingLineFeed ==
    /\ ~panicked
    /\ state.cursor_row + 1 >= state.rows
    /\ state' = execute(state, LF)

\* a step in which the reader applies a line feed with the cursor on the
\* last row of the primary grid
LineFeedAtBottom ==
    /\ ScrollingLineFeed
    /\ ~state.is_alt_screen
    /\ state.cursor_row = state.rows - 1

\* C4: the scrollback never holds more than HISTORY_CAP rows, and a line
\* feed that scrolls the primary grid while the scrollback holds HISTORY_CAP
\* rows drops exactly the oldest row, appends the grid's former top row as the
\* newest and keeps the order of the rows between.
ScrollbackBoundedFifo ==
    [][/\ Len(state'.history) <= HISTORY_CAP
       /\ (LineFeedAtBottom /\ Len(state.history) = HISTORY_CAP)
            => state'.history = Tail(state.history) \o <<state.primary_grid[1]>>
      ]_vars

\* a full scrollback after an eviction: the rows pushed since the attributes
\* changed during the last operations fill the two bottom rows of the grid
ScrollbackFullWitness ==
    /\ Len(state.history) = HISTORY_CAP
    /\ ~state.primary_grid[state.rows - 2][1].inverse
    /\ state.primary_grid[state.rows - 1][1].inverse
    /\ state.primary_grid[state.rows][1].inverse

\* C5: while the alternate screen is active no step changes the scrollback.
AltScreenKeepsScrollback ==
    [][state.is_alt_screen => state'.history = state.history]_vars

\* the alternate grid after a scroll: only scroll_up leaves a blank cell with
\* the inverse attribute in its bottom row
AltScrollWitness ==
    /\ state.is_alt_screen
    /\ state.alt_grid[state.rows][1] = Cell(SPACE, TERM_FG, TRANSPARENT, TRUE, FALSE)
    /\ state.history = <<>>

\* a step that leaves the alternate screen entered by the CSI ?1049h that
\* alt_entry records, only interpreter operations having run since
AltExit == alt_entry.active /\ state.is_alt_screen /\ ~state'.is_alt_screen

\* the cursor and the primary grid are those of the entry
AltRestored ==
    /\ state'.cursor_row = alt_entry.row
    /\ state'.cursor_col = alt_entry.col
    /\ state'.primary_grid = alt_entry.grid

\* C6 as stated: after CSI ?1049h on the primary screen, any sequence of
\* interpreter operations and then CSI ?1049l, the cursor and the primary
\* grid are those of the entry and the primary screen is active.
AltRoundTrip == [][AltExit => AltRestored]_vars

\* C6 amended: the same, when no further CSI ?1049h is processed between
\* the entry and the exit.
AltRoundTripUnnested == [][(AltExit /\ ~alt_entry.nested) => AltRestored]_vars

\* back on the primary screen, the cursor restored away from the origin and
\* both grids written
AltRoundTripWitness ==
    /\ ~state.is_alt_screen
    /\ state.alt_grid[1][1].c # SPACE
    /\ state.primary_grid[1][1].c # SPACE
    /\ state.saved_cursor = <<state.cursor_row, state.cursor_col>>
    /\ state.cursor_col > 0

\* C7: printing a narrow character with the cursor at (r, c), c < cols - 1,
\* writes it with the current attributes into cell (r, c) of the active grid,
\* changes no other cell of either grid nor the scrollback, and leaves the
\* cursor at (r, c + 1).
NarrowPrint ==
    [][\A c \in Chars :
        (/\ ~is_wide(c)
         /\ ~panicked
         /\ state.cursor_col < state.cols - 1
         /\ state' = print(state, c))
        => /\ state.cursor_row < Len(grid(state))
           /\ state'.is_alt_screen = state.is_alt_screen
           /\ grid(state') =
                [grid(state) EXCEPT ![state.cursor_row + 1][state.cursor_col + 1] =
                    PrintedCell(state, c)]
           /\ state.is_alt_screen => state'.primary_grid = state.primary_grid
           /\ ~state.is_alt_screen => state'.alt_grid = state.alt_grid
           /\ state'.history = state.history
           /\ state'.cursor_row = state.cursor_row
           /\ state'.cursor_col = state.cursor_col + 1
      ]_vars

\* C8: printing a double-width character at column c <= cols - 2 writes the
\* character at c and a continuation cell at c + 1 of the cursor's row and
\* advances the column by 2; at c = cols - 1 it wraps to column 0 of the next
\* row, scrolling if that row is past the last, and writes both cells there.
WidePrint ==
    [][\A c \in Chars :
        (is_wide(c) /\ ~panicked /\ state' = print(state, c))
        => IF state.cursor_col <= state.cols - 2
             THEN /\ state.cursor_row < Len(grid(state))
                  /\ grid(state')[state.cursor_row + 1][state.cursor_col + 1] =
                        PrintedCell(state, c)
                  /\ grid(state')[state.cursor_row + 1][state.cursor_col + 2] =
                        ContinuationCell(state)
                  /\ state'.cursor_row = state.cursor_row
                  /\ state'.cursor_col = state.cursor_col + 2
           ELSE IF state.cursor_col = state.cols - 1
             THEN LET next == [state EXCEPT !.cursor_col = 0, !.cursor_row = @ + 1]
                      s2 == IF next.cursor_row >= next.rows THEN scroll_up(next)
                                                            ELSE next
                  IN  /\ s2.cursor_row < Len(grid(s2))
                      /\ grid(state')[s2.cursor_row + 1][1] = PrintedCell(state, c)
                      /\ grid(state')[s2.cursor_row + 1][2] = ContinuationCell(state)
                      /\ state'.cursor_row = s2.cursor_row
                      /\ state'.cursor_col = 2
           ELSE TRUE
      ]_vars

\* C9: a line feed with the cursor on the last row of the active primary
\* grid appends the former top row to the scrollback as its newest row, moves
\* every other row up by one, adds one row at the bottom and leaves the cursor
\* on the last row, its column unchanged.
LineFeedScrolls ==
    [][LineFeedAtBottom =>
        LET g == state.primary_grid
            g2 == state'.primary_grid
            h2 == state'.history
        IN  /\ Len(h2) > 0 /\ h2[Len(h2)] = g[1]
            /\ Len(state.history) < HISTORY_CAP => h2 = Append(state.history, g[1])
            /\ Len(g2) = Len(g)
            /\ \A i \in 1..(Len(g) - 1) : g2[i] = g[i + 1]
            /\ Len(g2[Len(g2)]) = state.cols
            /\ state'.cursor_row = state.rows - 1
            /\ state'.cursor_col = state.cursor_col
      ]_vars

\* a written top row now in the scrollback, the cursor on the last row
LineFeedScrollsWitness ==
    /\ ~state.is_alt_screen
    /\ Len(state.history) > 0
    /\ state.history[1][1].c # SPACE
    /\ state.cursor_row = state.rows - 1

\* C10 as stated: every cell of the row scroll_up pushes at the bottom of the
\* active grid is the default Cell, whatever the attribute state.
ScrollRowDefault ==
    [][ScrollingLineFeed =>
        grid(state')[state.rows] = vec(DefaultCell, state.cols)]_vars

\* C10 amended: every cell of that row is a space that is no continuation
\* and carries the current foreground, background and inverse flag; it is the
\* default Cell when the attribute state is the default one.
ScrollRowCurrentAttributes ==
    [][ScrollingLineFeed =>
        /\ Len(grid(state')[state.rows]) = state.cols
        /\ \A j \in 1..state.cols :
              grid(state')[state.rows][j] =
                 Cell(SPACE, state.current_fg, state.current_bg,
                      state.current_inverse, FALSE)
        /\ (/\ state.current_fg = TERM_FG
            /\ state.current_bg = TRANSPARENT
            /\ ~state.current_inverse)
              => grid(state')[state.rows] = vec(DefaultCell, state.cols)
      ]_vars

\* a row scrolled off the primary grid and a pushed bottom row that carries
\* a background color
ScrollRowWitness ==
    /\ ~state.is_alt_screen
    /\ Len(state.history) > 0
    /\ state.primary_grid[state.rows][1].c = SPACE
    /\ ~state.primary_grid[state.rows][1].is_wide_continuation
    /\ state.primary_grid[state.rows][1].bg # TRANSPARENT

\* C11: resize(r, c) with r > 0 and c > 0 keeps, in both grids, every cell
\* (i, j) with i < min(r, old rows) and j < min(c, old cols), fills every
\* other cell of the new r x c grids with the default Cell, and leaves the
\* cursor at (min(row, r - 1), min(col, c - 1)): where it was unless that
\* lies outside the new bounds.
ResizeKeepsContent ==
    [][\A r \in ResizeRows \ {0}, c \in ResizeCols \ {0} :
        state' = resize(state, r, c)
        => /\ \A name \in {"primary_grid", "alt_grid"} :
                LET g == state[name]
                    g2 == state'[name]
                IN  /\ Len(g2) = r
                    /\ \A i \in 1..r :
                          /\ Len(g2[i]) = c
                          /\ \A j \in 1..c :
                                g2[i][j] =
                                  IF i <= min(r, state.rows) /\ j <= min(c, state.cols)
                                    THEN g[i][j]
                                    ELSE DefaultCell
           /\ state'.cursor_row = min(state.cursor_row, r - 1)
           /\ state'.cursor_col = min(state.cursor_col, c - 1)
           /\ (state.cursor_row < r /\ state.cursor_col < c)
                => /\ state'.cursor_row = state.cursor_row
                   /\ state'.cursor_col = state.cursor_col
      ]_vars

\* a written grid grown by a row and narrowed: the written cell kept, the
\* new row default, the cursor's row unchanged, its column clamped
ResizeKeepsContentWitness ==
    /\ called.made
    /\ state.rows > InitRows /\ state.cols < InitCols
    /\ state.primary_grid[1][1].c # SPACE
    /\ state.primary_grid[state.rows][1] = DefaultCell
    /\ state.cursor_row = 1
    /\ state.cursor_col = state.cols - 1

\* rows, cols and the length of every row of both grids
Dimensions(st) ==
    <<st.rows, st.cols,
      [i \in 1..Len(st.primary_grid) |-> Len(st.primary_grid[i])],
      [i \in 1..Len(st.alt_grid) |-> Len(st.alt_grid[i])]>>

\* again has the dimensions of first and its cursor is inside r2 x c2
SameDimensions(again, first, r2, c2) ==
    /\ Dimensions(again) = Dimensions(first)
    /\ 0 <= again.cursor_row /\ again.cursor_row <= r2 - 1
    /\ 0 <= again.cursor_col /\ again.cursor_col <= c2 - 1

\* C12: for all non-zero (r1, c1) and (r2, c2), the state after
\* resize(r2, c2); resize(r1, c1); resize(r2, c2) has the rows, the cols and
\* the grid dimensions of the state after the first resize(r2, c2), and its
\* cursor is within [0, r2 - 1] x [0, c2 - 1].
ResizeIdempotentOnDimensions ==
    [][\A r2 \in ResizeRows \ {0}, c2 \in ResizeCols \ {0} :
        state' = resize(state, r2, c2)
        => \A r1 \in ResizeRows \ {0}, c1 \in ResizeCols \ {0} :
              \A again \in {resize(resize(state', r1, c1), r2, c2)} :
                  SameDimensions(again, state', r2, c2)
      ]_vars

\* a written grid after a call of resize that removes rows and keeps the
\* width
ResizeIdempotentWitness ==
    /\ called.made
    /\ steps = MaxResizeSteps + MaxResizeCalls
    /\ called.rows < InitRows /\ called.cols = InitCols
    /\ state.rows = called.rows /\ state.cols = called.cols
    /\ state.primary_grid[1][1].c # SPACE

\* C13: resize with new_rows = 0 or new_cols = 0 changes nothing (rows, cols,
\* both grids, the cursor, the saved cursor, the scrollback) and does not
\* panic.
ResizeZeroNoOp ==
    [][\A r \in ResizeRows, c \in ResizeCols :
        ((r = 0 \/ c = 0) /\ state' = resize(state, r, c))
        => /\ state' = state
           /\ panicked' = panicked
      ]_vars

\* resize was called with zero columns on a written grid where the cursor
\* has moved
ResizeZeroWitness ==
    /\ called.made
    /\ called.cols = 0 /\ called.rows > 0
    /\ state.cols = InitCols
    /\ state.primary_grid[1][1].c # SPACE
    /\ state.cursor_row > 0

\* every cell the next print writes in state st has foreground fg
NextPrintedForeground(st, fg) ==
    \A c \in Chars :
        LET at == print_wrapped(st, c)
        IN  (~print_panics(st, c) /\ at.cursor_row < at.rows)
              => /\ grid(print(st, c))[at.cursor_row + 1][at.cursor_col + 1].c = c
                 /\ grid(print(st, c))[at.cursor_row + 1][at.cursor_col + 1].fg = fg

\* C14: after CSI n m with the single parameter n in 30..37 (or 90..97) the
\* next printed cell has the palette color n - 30 (or n - 90 + 8) as its
\* foreground; after CSI 0 m the current foreground, background and inverse
\* flag are the defaults and the next printed cell has the default
\* foreground.
SgrDrivesPrint ==
    [][\A n \in SgrCodes :
        (~panicked /\ state' = csi_dispatch(state, <<n>>, "", "m"))
        => /\ n \in 30..37 =>
                /\ state'.current_fg = ansi_color(n - 30)
                /\ NextPrintedForeground(state', ansi_color(n - 30))
           /\ n \in 90..97 =>
                /\ state'.current_fg = ansi_color(n - 90 + 8)
                /\ NextPrintedForeground(state', ansi_color(n - 90 + 8))
           /\ n = 0 =>
                /\ state'.current_fg = TERM_FG
                /\ state'.current_bg = TRANSPARENT
                /\ ~state'.current_inverse
                /\ NextPrintedForeground(state', TERM_FG)
      ]_vars

\* a cell printed in red (CSI 31 m) and the attributes reset by a later
\* CSI 0 m
SgrDrivesPrintWitness ==
    /\ state.primary_grid[1][1] = Cell(97, from_rgb(205, 0, 0), TRANSPARENT, FALSE, FALSE)
    /\ state.current_fg = TERM_FG
    /\ steps = 3

\* C15: the reader thread holds the state lock only while it applies the
\* handler calls of one chunk: never while it is blocked in read or has
\* left its loop, and it has released the lock whenever it reads again.
ReaderHoldsLockPerChunk ==
    /\ session.state_lock = "reader" <=> session.reader = "apply"
    /\ session.reader \in {"none", "read", "lock", "exit"}
          => session.state_lock # "reader"

\* the reader is back in read after a chunk of several handler calls, and
\* the ui thread has taken the lock it released
ReaderHoldsLockWitness ==
    /\ session.reader = "read"
    /\ session.reads > 0
    /\ state.primary_grid[1][1].c # SPACE
    /\ state.cursor_row > 0
    /\ session.state_lock = "ui"

\* the ui thread has changed its position, its events or its writes
UiStep ==
    <<session.ui, session.events, session.written>>' #
        <<session.ui, session.events, session.written>>

\* the positions at which the ui thread holds the state lock
UiLocked == {"resize_grid", "resize_pty", "resize_done", "ime", "key_read",
             "paint_rows", "frame_end"}

\* C16: the resize of the ui thread and the reader's work on a chunk exclude
\* each other: the resize takes effect only while the ui thread holds the
\* lock and the reader is not applying a chunk, the reader applies a handler
\* call only while it holds the lock and the ui thread does not, and
\* whoever acquires the lock finds both grids rows x cols.
ResizeExcludesChunk ==
    [][/\ (session.ui = "resize_grid" /\ UiStep)
            => /\ session.state_lock = "ui"
               /\ session.reader # "apply"
       /\ (session.reader = "apply" /\ session'.chunk # session.chunk)
            => /\ session.state_lock = "reader"
               /\ session.ui \notin UiLocked
       /\ (session'.state_lock # session.state_lock /\ session'.state_lock # "free")
            => /\ session.state_lock = "free"
               /\ GridShape
      ]_vars

\* the grid resized by the ui thread, which still holds the lock, while the
\* reader waits for it with a chunk of several handler calls
ResizeExcludesChunkWitness ==
    /\ session.ui = "resize_pty"
    /\ state.cols # InitCols
    /\ session.reader = "lock"
    /\ Len(session.chunk) > 1

\* C17: no painting step of a frame runs while the ui thread holds the
\* state lock.
PaintsWithoutLock ==
    [][(session.ui \in {"paint_bg", "paint_rows"} /\ UiStep)
          => session.state_lock # "ui"]_vars

\* C18: handling a text or key event of a frame (encoding it and writing it
\* to the PTY writer) never acquires the state lock.
KeyPathTakesNoStateLock ==
    [][(session.ui \in {"input", "events", "key_read", "key_write"} /\ UiStep)
          => /\ session.state_lock # "ui"
             /\ session'.state_lock = session.state_lock]_vars

\* the grid has the size the OS pseudo-terminal was last told
GridHasPtySize == session.pty_size = <<state.rows, state.cols>>

\* C19: the OS pseudo-terminal is told a size only when the grid already has
\* it, and while the grid has a size the pseudo-terminal was not yet told
\* the ui thread holds the lock, so the reader applies no chunk.
GridFirstPtySecond ==
    [][/\ (session'.pty_size # session.pty_size /\ session'.pty_size # <<0, 0>>)
            => /\ session'.pty_size = <<state.rows, state.cols>>
               /\ state' = state
       /\ (session.pty_size # <<0, 0>> /\ ~GridHasPtySize)
            => /\ session.ui = "resize_pty"
               /\ session.state_lock = "ui"
               /\ session.reader # "apply"
      ]_vars

\* the pseudo-terminal told a new size after the grid took it, the reader
\* then applying a chunk
GridFirstPtySecondWitness ==
    /\ session.pty_size # PtySize(InitRows, InitCols)
    /\ GridHasPtySize
    /\ session.reader = "apply"
    /\ state.primary_grid[1][1].c # SPACE

\* C20: if openpty, spawn_command, take_writer or try_clone_reader fails,
\* create_terminal_tab returns an error, there is no TerminalTab and no
\* reader thread, and no tab is opened.
SpawnFailureNoSession ==
    /\ session.error # ""
          => /\ session.result = "Err"
             /\ session.reader = "none"
             /\ session.ui = "none"
             /\ ~session.tab_open
    /\ session.tab_open => session.result = "Ok"

\* on_tab_menu is done after try_clone_reader, the last of the four calls,
\* failed on the second click
SpawnFailureWitness ==
    /\ session.error = "try_clone_reader"
    /\ session.create = "menu"
    /\ session.clicks = MaxClicks

\* C21: once a read has returned end-of-stream or an error the reader thread
\* has terminated and does not hold the state lock, and from then on the
\* reader makes no handler call: the grids, the cursor and the scrollback
\* change only in the resize of the ui thread.
ReaderEndsOnEof ==
    [][/\ session'.eof
            => /\ session'.reader = "exit"
               /\ session'.state_lock # "reader"
       /\ session.eof
            => /\ session'.eof
               /\ session'.chunk = session.chunk
               /\ session'.reads = session.reads
               /\ state' # state => (session.ui = "resize_grid" /\ UiStep)
      ]_vars

\* the reader has ended on a read after it applied a chunk; the ui thread
\* is in a resize, the grid already resized
ReaderEndsOnEofWitness ==
    /\ session.eof
    /\ session.reads > 0
    /\ state.primary_grid[1][1].c # SPACE
    /\ state.cols # InitCols
    /\ session.ui = "resize_pty"

\* the tab of a session was closed
TabClosed == session.ui = "closed"

\* C22: the step that closes a terminal tab kills the child shell process,
\* and after it the reader thread eventually reaches end-of-stream and exits.
CloseDestroysSession ==
    /\ [][(session.tab_open /\ ~session'.tab_open)
            => session'.child = "killed"]_vars
    /\ TabClosed ~> session.reader = "exit"

\* the part of C22 about the reader thread alone
CloseEndsReader == TabClosed ~> session.reader = "exit"

\* the finals for which csi_dispatch has an arm
Implemented(t) ==
    \/ t.c \in {"m", "H", "f", "G", "d", "J", "K", "X", "P", "A", "B", "C", "D"}
    \/ t.c \in {"h", "l"} /\ t.intermediates = "?"

\* C23: a CSI sequence whose final letter has no arm (h or l without the ?
\* intermediate included), and every esc_dispatch, osc_dispatch, hook, put and
\* unhook call, leaves the whole terminal state unchanged and does not panic.
UnimplementedIsNoOp ==
    [][\A op \in {session'.last_call} :
         (/\ steps' = steps + 1
          /\ \/ op.kind \in {"esc_dispatch", "osc_dispatch", "hook", "put", "unhook"}
             \/ op.kind = "csi" /\ ~Implemented(op.arg))
         => state' = state /\ ~panicked'
      ]_vars

\* an OSC sequence was handled on the alternate screen, after a print there
UnimplementedNoOpWitness ==
    /\ session.last_call.kind = "osc_dispatch"
    /\ state.is_alt_screen
    /\ state.alt_grid[1][1].c # SPACE

\* CSI 1049 h, without the `?`, was handled on the primary screen after the
\* cursor was moved
UnimplementedCsiWitness ==
    /\ session.last_call.kind = "csi"
    /\ session.last_call.arg = csi(<<1049>>, "", "h")
    /\ ~state.is_alt_screen
    /\ state.cursor_col > 0

\* the final byte of an arrow key's sequence
ArrowFinal(key) ==
    CASE key = "ArrowUp" -> 65
      [] key = "ArrowDown" -> 66
      [] key = "ArrowRight" -> 67
      [] key = "ArrowLeft" -> 68

\* the keys, other than the arrows, that the claim lists
ListedKey(event) ==
    \/ event.key \in {"Enter", "Backspace", "Tab", "Escape"}
    \/ event.key \in {"C", "D", "L", "Z"} /\ event.ctrl

\* C24: an arrow key is written as ESC O A/B/C/D exactly when the last of
\* CSI ?1h and CSI ?1l that the interpreter handled was ?1h, and as
\* ESC [ A/B/C/D otherwise; the other listed keys and literal text write
\* the same non-empty bytes whatever the terminal state; any other key
\* writes nothing.
InputEncoding ==
    [][\A event \in InputEvents :
         InputEvent(event) =>
           \A sent \in {session'.sent} :
             CASE event.kind = "Text" -> sent = as_bytes(event.text)
               [] event.kind = "Key" /\ event.pressed /\ event.key \in Arrows ->
                    sent = <<ESC, IF session.mode_1 = "h" THEN 79 ELSE 91,
                             ArrowFinal(event.key)>>
               [] event.kind = "Key" /\ event.pressed /\ ListedKey(event) ->
                    /\ sent # <<>>
                    /\ sent = event_bytes(new(InitRows, InitCols), event)
                    /\ sent = event_bytes(
                                [new(InitRows, InitCols) EXCEPT
                                    !.application_cursor = TRUE], event)
               [] OTHER -> sent = <<>>
      ]_vars

\* an arrow key was written in application mode; the interpreter has handled
\* CSI ?1h and, as its last call, CSI 1 l without the `?`
InputEncodingWitness ==
    /\ session.sent = <<ESC, 79, 67>>
    /\ session.last_call.kind = "csi"
    /\ session.last_call.arg = csi(<<1>>, "", "l")
    /\ session.mode_1 = "h"

\* the row range w, computed in state st, uses an offset within the
\* scrollback and lies within the content rows
RangeClamped(w, st) ==
    /\ w.offset <= Len(st.history)
    /\ 0 <= w.top
    /\ w.top <= w.bottom
    /\ w.bottom <= Len(st.history) + st.rows - 1

\* C25: every row range a frame computes, for the IME rectangle or for
\* painting, uses a scroll offset no larger than the scrollback length,
\* whatever scroll_offset is stored, and has
\* 0 <= top <= bottom <= scrollback length + grid rows - 1; computing it
\* changes no terminal state (only the frame's resize does).
ViewportClamped ==
    [][session'.frames = session.frames + 1
         => /\ \A i \in 1..Len(session'.ime_window) :
                  RangeClamped(session'.ime_window[i], state')
            /\ \A i \in 1..Len(session'.render_window) :
                  RangeClamped(session'.render_window[i], state')
            /\ ~panicked'
            /\ last_size' = last_size => state' = state
      ]_vars

\* the part of C25 about the painted range, in frames that have a row
PaintedRangeClamped ==
    [][(session'.frames = session.frames + 1 /\ session'.rows > 0)
         => \A i \in 1..Len(session'.render_window) :
               RangeClamped(session'.render_window[i], state')
      ]_vars

\* the part of C25 about the range of the IME rectangle, in frames that
\* have a row
ImeRangeClamped ==
    [][(session'.frames = session.frames + 1 /\ session'.rows > 0)
         => \A i \in 1..Len(session'.ime_window) :
               RangeClamped(session'.ime_window[i], state')
      ]_vars

\* the part of C25 about frames without a row
RowlessFrameComputes ==
    [][(session'.frames = session.frames + 1 /\ session'.rows = 0)
         => ~panicked']_vars

\* a step in which the interpreter handled a CSI sequence with final c
Handled(c) ==
    /\ steps' = steps + 1
    /\ session'.last_call.kind = "csi"
    /\ session'.last_call.arg.c = c

\* the CSI sequence the interpreter handles in this step, if it handles one
HandledCsi ==
    IF steps' = steps + 1 /\ session'.last_call.kind = "csi"
      THEN {session'.last_call.arg}
      ELSE {}

\* the count of CSI A, B, C, D: 1 if the parameter is omitted
MoveCount == unwrap_or(nth(session'.last_call.arg.params, 1), 1)

\* nothing but the cursor differs between st and s2
OnlyCursorMoved(st, s2) ==
    s2 = [st EXCEPT !.cursor_row = s2.cursor_row, !.cursor_col = s2.cursor_col]

\* a step that handles CSI A, B, C or D moves the cursor as C26 says
MovesClamped ==
    /\ Handled("A")
         => /\ state'.cursor_row = saturating_sub(state.cursor_row, MoveCount)
            /\ state'.cursor_row \in 0..(state.rows - 1)
            /\ state'.cursor_col = state.cursor_col
            /\ OnlyCursorMoved(state, state')
    /\ Handled("B")
         => /\ state'.cursor_row = min(state.cursor_row + MoveCount, state.rows - 1)
            /\ state'.cursor_row \in 0..(state.rows - 1)
            /\ state'.cursor_col = state.cursor_col
            /\ OnlyCursorMoved(state, state')
    /\ Handled("C")
         => /\ state'.cursor_col = min(state.cursor_col + MoveCount, state.cols - 1)
            /\ state'.cursor_col \in 0..(state.cols - 1)
            /\ state'.cursor_row = state.cursor_row
            /\ OnlyCursorMoved(state, state')
    /\ Handled("D")
         => /\ state'.cursor_col = saturating_sub(state.cursor_col, MoveCount)
            /\ state'.cursor_col \in 0..(state.cols - 1)
            /\ state'.cursor_row = state.cursor_row
            /\ OnlyCursorMoved(state, state')

\* C26: CSI A, B, C, D move the cursor up, down, right, left by the
\* parameter, by one if it is omitted; the moved coordinate stops at the
\* grid's edge and is inside the grid (row in [0, rows-1], column in
\* [0, cols-1]); the other coordinate and everything else is unchanged.
MoveClamped == [][MovesClamped]_vars

\* C26 in the states whose cursor is inside the grid
MoveClampedInside ==
    [][CursorInBounds => MovesClamped]_vars

\* the 0-based index a 1-based parameter names: a missing or zero parameter
\* counts as 1, and the index stops at last
Clamped(params, i, last) ==
    LET n == IF i > Len(params) \/ params[i] = 0 THEN 1 ELSE params[i]
    IN  min(n - 1, last)

\* C27: CSI H and f put the cursor at (min(row-1, rows-1), min(col-1, cols-1))
\* for 1-based parameters row; col, a missing or zero parameter counting
\* as 1; CSI G sets only the column and CSI d only the row in the same way;
\* nothing but the cursor changes.
PositionClamped ==
    [][\A t \in HandledCsi :
        /\ t.c \in {"H", "f"}
             => /\ state'.cursor_row = Clamped(t.params, 1, state.rows - 1)
                /\ state'.cursor_col = Clamped(t.params, 2, state.cols - 1)
                /\ OnlyCursorMoved(state, state')
        /\ t.c = "G"
             => /\ state'.cursor_col = Clamped(t.params, 1, state.cols - 1)
                /\ state'.cursor_row = state.cursor_row
                /\ OnlyCursorMoved(state, state')
        /\ t.c = "d"
             => /\ state'.cursor_row = Clamped(t.params, 1, state.rows - 1)
                /\ state'.cursor_col = state.cursor_col
                /\ OnlyCursorMoved(state, state')
      ]_vars

\* CSI 2;5 f was handled after a print and a line feed: the cursor is at
\* (1, 4) and the printed cell is in place
PositionClampedWitness ==
    /\ session.last_call.kind = "csi"
    /\ session.last_call.arg = csi(<<2, 5>>, "", "f")
    /\ state.cursor_row = 1 /\ state.cursor_col = 4
    /\ state.primary_grid[1][1].c # SPACE
    /\ steps = MaxCursorSteps

\* CSI 99 d was handled with the cursor past the last column
PositionFromOutsideWitness ==
    /\ session.last_call.kind = "csi"
    /\ session.last_call.arg = csi(<<99>>, "", "d")
    /\ state.cursor_row = state.rows - 1
    /\ state.cursor_col = state.cols

\* a step in which the interpreter handled the control byte
Executed(byte) ==
    /\ steps' = steps + 1
    /\ session'.last_call.kind = "execute"
    /\ session'.last_call.arg = byte

\* a step that handles a control byte changes the state as C28 says
ControlMoves ==
    /\ Executed(CR)
         => /\ state'.cursor_col = 0
            /\ state'.cursor_row = state.cursor_row
            /\ OnlyCursorMoved(state, state')
    /\ Executed(BS)
         => /\ state'.cursor_col =
                  IF state.cursor_col = 0 THEN 0 ELSE state.cursor_col - 1
            /\ state'.cursor_row = state.cursor_row
            /\ OnlyCursorMoved(state, state')
    /\ Executed(LF)
         => IF state.cursor_row + 1 <= state.rows - 1
              THEN /\ state'.cursor_row = state.cursor_row + 1
                   /\ state'.cursor_col = state.cursor_col
                   /\ OnlyCursorMoved(state, state')
              ELSE /\ state' = scroll_up([state EXCEPT !.cursor_row = @ + 1])
                   /\ state'.cursor_col = state.cursor_col
    /\ Executed(TAB)
         => /\ state'.cursor_col =
                  min(8 * ((state.cursor_col \div 8) + 1), state.cols - 1)
            /\ state'.cursor_col >= state.cursor_col
            /\ state'.cursor_row = state.cursor_row
            /\ OnlyCursorMoved(state, state')

\* TerminalState::new(24, 80) after "Hello", CR, LF
Hello ==
    LET s0 == new(24, 80)
        s1 == print(s0, 72)
        s2 == print(s1, 101)
        s3 == print(s2, 108)
        s4 == print(s3, 108)
        s5 == print(s4, 111)
    IN  execute(execute(s5, CR), LF)

\* the scenario of C28: H, e, l, l, o in cells (0,0)..(0,4) in default
\* colors, the cursor at (1,0)
HelloScenario ==
    /\ \A i \in 1..5 :
          Hello.primary_grid[1][i] =
            Cell(<<72, 101, 108, 108, 111>>[i], TERM_FG, TRANSPARENT, FALSE, FALSE)
    /\ Hello.cursor_row = 1
    /\ Hello.cursor_col = 0

\* C28: carriage return sets the column to 0 and keeps the row; backspace
\* decrements the column unless it is 0; line feed advances the row by one
\* and keeps the column, calling scroll_up when the row would pass the last
\* row; tab moves the column to min(8 * (col div 8 + 1), cols - 1), never to
\* a smaller column; nothing else changes. And "Hello", CR, LF on an 80x24
\* terminal leaves the scenario's cells and cursor.
ControlBytes == [][ControlMoves /\ HelloScenario]_vars

\* C28 in the states whose cursor is inside the grid
ControlBytesInside == [][CursorInBounds => (ControlMoves /\ HelloScenario)]_vars

\* C29: CSI J whose parameter is 2 replaces every cell of the active grid
\* with the default Cell and puts the cursor at (0,0); the inactive grid, the
\* scrollback, the attributes and the saved cursor stay; CSI J with another
\* parameter or none changes nothing.
EraseDisplay ==
    [][\A t \in HandledCsi :
         t.c = "J" =>
           IF t.params # <<>> /\ t.params[1] = 2
             THEN /\ Len(grid(state')) = state.rows
                  /\ \A i \in 1..state.rows :
                        /\ Len(grid(state')[i]) = state.cols
                        /\ \A j \in 1..state.cols : grid(state')[i][j] = DefaultCell
                  /\ state'.cursor_row = 0 /\ state'.cursor_col = 0
                  /\ state' = [grid_mut(state, grid(state')) EXCEPT
                                 !.cursor_row = 0, !.cursor_col = 0]
                  /\ ~panicked'
             ELSE state' = state /\ ~panicked'
      ]_vars

\* CSI 2 J was handled on the alternate screen as the last of
\* MaxEraseSteps calls; the primary grid keeps its printed cell and the
\* saved cursor its column
EraseDisplayWitness ==
    /\ session.last_call.kind = "csi"
    /\ session.last_call.arg = csi(<<2>>, "", "J")
    /\ state.is_alt_screen
    /\ state.primary_grid[1][1].c # SPACE
    /\ state.saved_cursor[2] > 0
    /\ steps = MaxEraseSteps

\* CSI 0;2 J was handled after a print: nothing was erased
EraseDisplayOtherWitness ==
    /\ session.last_call.kind = "csi"
    /\ session.last_call.arg = csi(<<0, 2>>, "", "J")
    /\ state.primary_grid[1][1].c # SPACE
    /\ state.cursor_col > 0

\* C30: CSI K sets every cell of the active grid on the cursor's row from
\* the cursor's column through the last column to the default Cell and
\* changes no cell left of the cursor, no cell of another row, and not the
\* cursor (nor anything else).
EraseLine ==
    [][\A t \in HandledCsi :
         t.c = "K" =>
           /\ ~panicked'
           /\ state'.cursor_row = state.cursor_row
           /\ state'.cursor_col = state.cursor_col
           /\ state' = grid_mut(state, grid(state'))
           /\ Len(grid(state')) = Len(grid(state))
           /\ \A i \in 1..Len(grid(state)) :
                 IF i = state.cursor_row + 1
                   THEN /\ Len(grid(state')[i]) = Len(grid(state)[i])
                        /\ \A j \in 1..Len(grid(state)[i]) :
                              grid(state')[i][j] =
                                IF j >= state.cursor_col + 1 THEN DefaultCell
                                                             ELSE grid(state)[i][j]
                   ELSE grid(state')[i] = grid(state)[i]
      ]_vars

\* C30 in the states whose cursor is inside the grid
EraseLineInside ==
    [][CursorInBounds =>
         \A t \in HandledCsi :
           t.c = "K" =>
             /\ ~panicked'
             /\ state' =
                  grid_mut(state,
                           [grid(state) EXCEPT ![state.cursor_row + 1] =
                              [j \in 1..state.cols |->
                                 IF j >= state.cursor_col + 1 THEN DefaultCell
                                                              ELSE @[j]]])
      ]_vars

\* the count of CSI X and CSI P: the first parameter, 1 when there is none
CharCount(t) == unwrap_or(nth(t.params, 1), 1)

\* C31: CSI X with count N sets exactly the cells of the active grid at
\* columns col .. min(col + N, cols) - 1 of the cursor's row to the default
\* Cell, changes no other cell, does not move the cursor and keeps the row
\* at cols cells.
EraseChars ==
    [][\A t \in HandledCsi :
         t.c = "X" =>
           /\ ~panicked'
           /\ state'.cursor_row = state.cursor_row
           /\ state'.cursor_col = state.cursor_col
           /\ state' = grid_mut(state, grid(state'))
           /\ Len(grid(state')) = Len(grid(state))
           /\ \A i \in 1..Len(grid(state)) :
                 IF i = state.cursor_row + 1
                   THEN /\ Len(grid(state')[i]) = state.cols
                        /\ \A j \in 1..Len(grid(state)[i]) :
                              grid(state')[i][j] =
                                IF /\ j - 1 >= state.cursor_col
                                   /\ j - 1 <= min(state.cursor_col + CharCount(t),
                                                   state.cols) - 1
                                  THEN DefaultCell
                                  ELSE grid(state)[i][j]
                   ELSE grid(state')[i] = grid(state)[i]
      ]_vars

\* C31 in the states whose cursor is inside the grid
EraseCharsInside ==
    [][CursorInBounds =>
         \A t \in HandledCsi :
           t.c = "X" =>
             /\ ~panicked'
             /\ state' =
                  grid_mut(state,
                           [grid(state) EXCEPT ![state.cursor_row + 1] =
                              [j \in 1..state.cols |->
                                 IF /\ j - 1 >= state.cursor_col
                                    /\ j - 1 < state.cursor_col + CharCount(t)
                                   THEN DefaultCell
                                   ELSE @[j]]])
      ]_vars

\* CSI 2 X was handled with the cursor inside a line that held a print: two
\* cells were erased and cells remain on both sides
EraseCharsScenario ==
    /\ session.last_call.kind = "csi"
    /\ session.last_call.arg = csi(<<2>>, "", "X")
    /\ ~panicked
    /\ state.cursor_col = 2
    /\ grid(state)[state.cursor_row + 1][1].c # SPACE

\* the number of cells CSI P with count n removes in state st:
\* min(n, cols - col), none when the cursor is past the row
Removed(st, n) ==
    IF st.cursor_col >= st.cols THEN 0 ELSE min(n, st.cols - st.cursor_col)

\* C32: CSI P with count N on a cursor at column col removes
\* min(N, cols - col) cells starting at col on the cursor's row, shifts the
\* cells right of them left by that amount in order, fills the vacated tail
\* with default Cells, keeps the row at cols cells and changes neither the
\* cursor nor another row (nor anything else); with the cursor below the
\* grid it changes nothing.
DeleteChars ==
    [][\A t \in HandledCsi :
         t.c = "P" =>
           /\ ~panicked'
           /\ state' =
                IF state.cursor_row + 1 \in 1..Len(grid(state))
                  THEN grid_mut(state,
                         [grid(state) EXCEPT ![state.cursor_row + 1] =
                            [j \in 1..state.cols |->
                               IF j <= state.cursor_col THEN @[j]
                               ELSE IF j + Removed(state, CharCount(t)) <= state.cols
                                 THEN @[j + Removed(state, CharCount(t))]
                                 ELSE DefaultCell]])
                  ELSE state
      ]_vars

\* CSI 2 P was handled on the first column as the last of MaxCharsSteps
\* calls: the line now begins with a 'b' followed by a blank
DeleteCharsWitness ==
    /\ session.last_call.kind = "csi"
    /\ session.last_call.arg = csi(<<2>>, "", "P")
    /\ ~panicked
    /\ state.cursor_col = 0
    /\ grid(state)[state.cursor_row + 1][1].c = 98
    /\ grid(state)[state.cursor_row + 1][2].c = SPACE
    /\ steps = MaxCharsSteps

\* CSI P was handled with the cursor outside the grid
DeleteOutsideWitness ==
    /\ session.last_call.kind = "csi"
    /\ session.last_call.arg.c = "P"
    /\ ~CursorInBounds

\* the indexed palette: the sixteen colors of the table, the 6x6x6 color
\* cube for 16..231 and the gray ramp for 232..255
CubeLevel(v) == IF v = 0 THEN 0 ELSE 55 + 40 * v

PaletteColor(n) ==
    IF n < 16 THEN ansi_color(n)
    ELSE IF n < 232
      THEN from_rgb(CubeLevel((n - 16) \div 36), CubeLevel(((n - 16) \div 6) % 6),
                    CubeLevel((n - 16) % 6))
      ELSE from_rgb(8 + 10 * (n - 232), 8 + 10 * (n - 232), 8 + 10 * (n - 232))

\* the number of parameters the code at position i is made of: 3 for
\* 38;5;n and 48;5;n, 5 for 38;2;r;g;b and 48;2;r;g;b, 1 for any other code;
\* 0 for a 38 or 48 that is neither form
CodeLen(params, i) ==
    IF params[i] \in {38, 48}
      THEN IF nth(params, i + 1) = <<5>> THEN 3
           ELSE IF nth(params, i + 1) = <<2>> THEN 5
           ELSE 0
      ELSE 1

\* the parameters from position i on are a sequence of whole codes
RECURSIVE WholeCodes(_, _)
WholeCodes(params, i) ==
    IF i > Len(params) THEN TRUE
    ELSE /\ CodeLen(params, i) > 0
         /\ i + CodeLen(params, i) - 1 <= Len(params)
         /\ WholeCodes(params, i + CodeLen(params, i))

\* the effect of the one code at position i
CodeEffect(st, params, i) ==
    LET p == params[i]
        color == IF params[i + 1] = 5
                   THEN PaletteColor(params[i + 2])
                   ELSE from_rgb(params[i + 2], params[i + 3], params[i + 4])
    IN  CASE p = 0 -> [st EXCEPT !.current_fg = TERM_FG,
                                 !.current_bg = TRANSPARENT,
                                 !.current_inverse = FALSE]
          [] p = 7 -> [st EXCEPT !.current_inverse = TRUE]
          [] p = 27 -> [st EXCEPT !.current_inverse = FALSE]
          [] p \in 30..37 -> [st EXCEPT !.current_fg = PaletteColor(p - 30)]
          [] p = 38 -> [st EXCEPT !.current_fg = color]
          [] p = 39 -> [st EXCEPT !.current_fg = TERM_FG]
          [] p \in 40..47 -> [st EXCEPT !.current_bg = PaletteColor(p - 40)]
          [] p = 48 -> [st EXCEPT !.current_bg = color]
          [] p = 49 -> [st EXCEPT !.current_bg = TRANSPARENT]
          [] p \in 90..97 -> [st EXCEPT !.current_fg = PaletteColor(p - 90 + 8)]
          [] p \in 100..107 -> [st EXCEPT !.current_bg = PaletteColor(p - 100 + 8)]
          [] OTHER -> st

\* the effects of the codes from position i on, composed left to right
RECURSIVE Composed(_, _, _)
Composed(st, params, i) ==
    IF i > Len(params) THEN st
    ELSE Composed(CodeEffect(st, params, i), params, i + CodeLen(params, i))

\* every index of a 38;5;n or 48;5;n from position i on is one of the
\* sixteen of the table
RECURSIVE TableIndexes(_, _)
TableIndexes(params, i) ==
    IF i > Len(params) THEN TRUE
    ELSE /\ (CodeLen(params, i) = 3 => params[i + 2] < 16)
         /\ TableIndexes(params, i + CodeLen(params, i))

\* C33: SGR parameters are applied strictly left to right, the final
\* attributes being the composition of each code's effect: 38;5;n and
\* 48;5;n set the foreground / background to indexed palette color n,
\* 38;2;r;g;b and 48;2;r;g;b to the literal RGB color, each consuming its
\* own sub-parameters, and an unrecognized code changes nothing and does not
\* alter the processing of the parameters after it.
SgrComposition ==
    [][\A t \in HandledCsi :
         t.c = "m" /\ WholeCodes(t.params, 1) =>
           /\ ~panicked'
           /\ state' = Composed(state, t.params, 1)
      ]_vars

\* C33 for the sequences whose palette indexes are below 16
SgrCompositionTable ==
    [][\A t \in HandledCsi :
         t.c = "m" /\ WholeCodes(t.params, 1) /\ TableIndexes(t.params, 1) =>
           /\ ~panicked'
           /\ state' = Composed(state, t.params, 1)
      ]_vars

\* CSI 48;5;n m with n past the table leaves the default foreground color
\* as the background
SgrIndexPastTable ==
    [][\A t \in HandledCsi :
         t.c = "m" /\ t.params = <<48, 5, 200>> => state'.current_bg = TERM_FG
      ]_vars

\* the sequence with an unrecognized code, both extended forms and a
\* trailing code was handled after another call
SgrCompositionScenario ==
    /\ session.last_call.kind = "csi"
    /\ session.last_call.arg = csi(<<99, 38, 5, 2, 48, 2, 4, 5, 6, 27>>, "", "m")
    /\ state.current_fg = ansi_color(2)
    /\ state.current_bg = from_rgb(4, 5, 6)
    /\ ~state.current_inverse
    /\ steps > 1

\* C34: with a display of as many rows as the grid, the visible window at
\* scroll offset 0 maps display row i to row i of the active grid and shows
\* no scrollback row; at effective offset k <= scrollback length it is
\* shifted up by exactly k content rows, a display row showing the
\* scrollback row at its index when the index is below the scrollback
\* length and the active-grid row at (index - scrollback length) otherwise.
WindowMapping ==
    [][session'.frames = session.frames + 1 /\ ~panicked'
         /\ session'.rows = Len(grid(state')) =>
           \A k \in {min(session'.scroll_offset, Len(state'.history))} :
             /\ Len(session'.rows_painted) = session'.rows
             /\ \A i \in 0..(session'.rows - 1) :
                  \A index \in {Len(state'.history) - k + i} :
                    /\ session'.rows_painted[i + 1].from =
                         IF index < Len(state'.history) THEN "history" ELSE "grid"
                    /\ session'.rows_painted[i + 1].index =
                         IF index < Len(state'.history)
                           THEN index ELSE index - Len(state'.history)
                    /\ session'.rows_painted[i + 1].cells =
                         IF index < Len(state'.history)
                           THEN <<state'.history[index + 1]>>
                           ELSE <<grid(state')[index - Len(state'.history) + 1]>>
                    /\ k = 0 =>
                         /\ session'.rows_painted[i + 1].from = "grid"
                         /\ session'.rows_painted[i + 1].index = i
      ]_vars

\* a frame painted a window scrolled up by one row over a scrollback of two
\* rows: its first display row shows the last scrollback row, its second
\* the first grid row
WindowMappingWitness ==
    /\ session.frames > 0
    /\ ~panicked
    /\ session.rows = Len(grid(state))
    /\ Len(state.history) = 2
    /\ session.scroll_offset = 1
    /\ Len(session.rows_painted) = session.rows
    /\ session.rows_painted[1] = [from |-> "history", index |-> 1,
                                  cells |-> <<state.history[2]>>]
    /\ session.rows_painted[2].from = "grid"

\* a frame painted the window at offset 0 over a scrollback that is not
\* empty
WindowBottomWitness ==
    /\ session.frames > 0
    /\ ~panicked
    /\ session.rows = Len(grid(state))
    /\ Len(state.history) > 0
    /\ session.scroll_offset = 0
    /\ Len(session.rows_painted) = session.rows
    /\ session.rows_painted[1].from = "grid"

\* the state and the parser after the first n bytes of the stream were
\* handled as one chunk by a new parser on a new terminal
AsOneChunk(stream, n) ==
    advance_all([state |-> new(InitRows, InitCols), parser |-> ParserNew,
                 panicked |-> FALSE],
                SubSeq(stream, 1, n), 1)

\* C35: with no resize in between, the terminal state after the reader has
\* handled the whole stream is the same for every way of splitting the
\* stream into chunks, in the middle of an escape sequence or of a
\* multi-byte character too: it is the state after the stream handled as
\* one chunk (and so it is after every prefix).
ChunkIndependence ==
    /\ state = AsOneChunk(session.stream, session.consumed).state
    /\ session.parser = AsOneChunk(session.stream, session.consumed).parser
    /\ panicked = AsOneChunk(session.stream, session.consumed).panicked

\* the whole stream with the wide character was read one byte at a time,
\* and the wide character is on the alternate grid
ChunkIndependenceWitness ==
    /\ session.consumed = Len(session.stream)
    /\ session.reads = Len(session.stream)
    /\ session.reader = "exit"
    /\ ~panicked
    /\ state.is_alt_screen
    /\ \E i \in 1..state.rows, j \in 1..state.cols : grid(state)[i][j].c = 20013

\* the positions at which the ui thread asks for the state lock
UiWantsState ==
    \/ session.ui \in {"resize_lock", "ime_lock", "paint_lock"}
    \/ session.ui = "events" /\ session.events # <<>>
         /\ Head(session.events) = "Key"

\* the positions at which the ui thread holds the state lock
UiHasState ==
    session.ui \in {"resize_grid", "resize_pty", "resize_done", "ime",
                    "key_read", "paint_rows", "frame_end"}

\* the order of the locks: no thread asks for a lock it holds, the ui
\* thread resizes the pseudo-terminal under the state lock and reads the
\* cursor mode under the writer lock, and the reader thread never has the
\* writer lock and asks for the state lock while it holds none
LockOrder ==
    /\ UiWantsState => session.state_lock # "ui"
    /\ session.ui = "input" => session.writer_lock # "ui"
    /\ session.reader = "lock" => session.state_lock # "reader"
    /\ session.ui = "resize_pty" => session.state_lock = "ui"
    /\ session.ui = "key_read" =>
         session.writer_lock = "ui" /\ session.state_lock = "ui"
    /\ session.writer_lock # "reader"

\* C36: the ui thread and the reader thread cannot deadlock: the locks are
\* taken in the order LockOrder states, and each thread that asks for a
\* lock obtains it eventually, provided the threads that hold locks keep
\* running.
NoDeadlock ==
    /\ []LockOrder
    /\ (session.reader = "lock") ~> (session.state_lock = "reader")
    /\ UiWantsState ~> UiHasState
    /\ (session.ui = "input") ~> (session.writer_lock = "ui")

\* the reader asks for the state lock while the ui thread holds it together
\* with the writer lock
NoDeadlockWitness ==
    /\ session.reader = "lock"
    /\ session.state_lock = "ui"
    /\ session.writer_lock = "ui"

\* the ui thread asks for the state lock while the reader holds it
UiWaitsWitness ==
    /\ UiWantsState
    /\ session.state_lock = "reader"
    /\ session.chunk # <<>>

\* the rows of both grids and of the scrollback
AllRows(st) ==
    {st.primary_grid[i] : i \in 1..Len(st.primary_grid)}
      \cup {st.alt_grid[i] : i \in 1..Len(st.alt_grid)}
      \cup {st.history[i] : i \in 1..Len(st.history)}

\* every continuation cell of the row follows the cell of a wide character
Paired(row) ==
    \A j \in 1..Len(row) :
       row[j].is_wide_continuation =>
         /\ j - 1 >= 1
         /\ is_wide(row[j - 1].c)
         /\ ~row[j - 1].is_wide_continuation

\* C37: in every state, every cell of either grid or of the scrollback
\* that is marked as a wide continuation is at a column >= 1, and the cell
\* to its left on the same row holds a double-width character (code point
\* above 0x7f) and is not itself a continuation.
WidePairing == \A row \in AllRows(state) : Paired(row)

\* the row ranges a frame computed
Windows(s) ==
    {s.ime_window[i] : i \in 1..Len(s.ime_window)}
      \cup {s.render_window[i] : i \in 1..Len(s.render_window)}

\* C38: the window computation of a frame is defined for every display
\* size and every stored scroll offset: for every display row count,
\* 0 too, the index arithmetic (rows - 1, 1 + scroll_offset, the
\* subtractions from the content length) neither underflows nor overflows,
\* in a build that checks (no panic) or in one that wraps.
WindowArithmeticDefined ==
    [][session'.frames = session.frames + 1 =>
         /\ ~panicked'
         /\ \A w \in Windows(session') : ~w.overflow
      ]_vars

\* C38 for the frames that have a row
WindowArithmeticWithRows ==
    [][session'.frames = session.frames + 1 /\ session'.rows > 0 =>
         /\ ~panicked'
         /\ \A w \in Windows(session') : ~w.overflow
      ]_vars

\* a frame with rows, the focus and a stored offset past the scrollback
\* computed both ranges
WindowArithmeticScenario ==
    /\ session.frames > 1
    /\ session.rows > 0
    /\ session.focus
    /\ Len(session.ime_window) = 1
    /\ session.ime_window[1].offset > Len(state.history)
    /\ Len(session.render_window) = 1

=============================================================================
